---- MODULE Spec2Model ----
(***************************************************************************)
(* The Art-Net receiver of the LED node (led_node/src/artnet.rs,           *)
(* receive_artnet): one cooperative task that takes a datagram off its UDP *)
(* socket, decodes it, and dispatches on the message kind.  Pixel data is  *)
(* routed by port address into one of four fixed pixel buffers and the     *)
(* strip of a channel is written when a message for offset 0 arrives; a    *)
(* poll is answered with a PollReply; everything else is only logged.      *)
(*                                                                         *)
(* The task has three suspension points (recv_from, write_uints, send_to); *)
(* pc says at which of them the task stands.  A panic stops the task for   *)
(* good (panic_probe halts the core).                                      *)
(*                                                                         *)
(* Integer overflow in Rust is build dependent: with overflow checks (the  *)
(* dev profile) it panics, without them (the release profile) it wraps.    *)
(* overflow_checks is the build the node runs; both are modelled.          *)
(***************************************************************************)
EXTENDS Integers, Sequences, FiniteSets, TLC

VARIABLES
    pc,                \* "recv_from" | "write_uints" | "send_to" | "panicked";
                       \* "main" while receive_artnet has not been entered
    overflow_checks,   \* TRUE: arithmetic overflow panics; FALSE: it wraps
    pixels_uints,      \* pixels_0_uints .. pixels_3_uints, [0..3 -> [0..PIXEL_COUNT-1 -> u32]]
    last_sequence,     \* u8
    port_address,      \* local of the last Dmx arm entered
    start_of_universe_in_pixel_array,  \* local of the last Dmx arm that reached line 116
    branch,            \* buffers the if-chain of the last Dmx arm selected ({} or {k})
    strip_writes,      \* [0..3 -> Nat]: write_uints calls started on strip k
    frame_out,         \* the frame the latest write_uints call was handed
    sent,              \* send_to calls made so far: <<[to, payload], ...>>
    log,               \* last line printed on the UART
    last,              \* the datagram recv_from returned (or failed on) last
    repeated,          \* TRUE iff that datagram equals the one before it
    n_recv,            \* recv_from calls that have returned
    panic_at,          \* source line of the panic, 0 while running
    rx_queue,          \* datagrams held in the socket's receive buffer, oldest first
    arrived,           \* datagrams the network stack has delivered to the socket
    dropped,           \* datagrams the socket had no room for
    arrived_during_write,  \* arrivals since the last dequeue with the task in write_uints
    \* the desktop server (server_rust/src/main.rs, struct Haven)
    elders,            \* preview.0: the poofers of the nine stations
    current_trigger_effect,  \* "None" or the name of the selected trigger effect
    trigger_effect_start,    \* Instant of its selection
    now,               \* the latest Instant the program has seen
    nonagram,          \* the Nonagram effect object: [index, time]
    random_poof,       \* the RandomPoof effect object: [index, time]
    poofer_port,       \* TRUE iff a serial port is selected (Option<PooferBusPort>)
    poofer_output_enabled,
    poofer_output_enabled_once,
    bus,               \* the commands output has sent to the port thread, oldest first
    crane_light,       \* preview.0[i].crane_light: r, g, b in 720000ths of 1.0
    current_ambient_effect,  \* the name of the selected ambient effect
    artnet_output_enabled,
    artnet_output_frame_count,
    artnet_out,        \* the Art-Net datagrams the latest Tick sent, in sending order
    \* the LED node's start-up (led_node/src/main.rs, main and bootsel_task)
    main_pc,           \* where main is: [op |-> "for" | "write" | "receive_artnet", strip]
    pixels,            \* the colour <<r, g, b>> every element of main's pixels holds
    strips,            \* [0..3 -> colour]: the colour main wrote to each strip last
    boot_loops,        \* passes of main's loop completed, counted up to MaxBootLoops
    bootsel_pc,        \* where bootsel_task is: "check" | "timer"
    bootsel_pressed,   \* the BOOTSEL button is held down
    usb_boot,          \* reset_to_usb_boot was called: the firmware no longer runs
    \* the thread PooferBusPort::new spawns (poofer_bus_port.rs)
    writer_pc,         \* "none" | "recv" | "write"
    command,           \* the command recv returned last
    written            \* the port.write calls made: <<[command, ok], ...>>

node_vars == <<pc, overflow_checks, pixels_uints, last_sequence, port_address,
               start_of_universe_in_pixel_array, branch, strip_writes, frame_out, sent,
               log, last, repeated, n_recv, panic_at,
               rx_queue, arrived, dropped, arrived_during_write>>

server_vars == <<elders, current_trigger_effect, trigger_effect_start, now, nonagram,
                 random_poof, poofer_port, poofer_output_enabled,
                 poofer_output_enabled_once, bus,
                 crane_light, current_ambient_effect,
                 artnet_output_enabled, artnet_output_frame_count, artnet_out>>

main_vars == <<main_pc, pixels, strips, boot_loops, bootsel_pc, bootsel_pressed,
               usb_boot>>

writer_vars == <<writer_pc, command, written>>

vars == <<pc, overflow_checks, pixels_uints, last_sequence, port_address,
          start_of_universe_in_pixel_array, branch, strip_writes, frame_out, sent,
          log, last, repeated, n_recv, panic_at,
          rx_queue, arrived, dropped, arrived_during_write,
          elders, current_trigger_effect, trigger_effect_start, now, nonagram,
          random_poof, poofer_port, poofer_output_enabled,
          poofer_output_enabled_once, bus,
          crane_light, current_ambient_effect,
          artnet_output_enabled, artnet_output_frame_count, artnet_out,
          main_pc, pixels, strips, boot_loops, bootsel_pc, bootsel_pressed, usb_boot,
          writer_pc, command, written>>

-----------------------------------------------------------------------------
(* Program constants *)

PIXEL_COUNT == 170

BUF_LEN == 1024

\* rx_meta: packet slots of the socket's receive buffer
RX_META_LEN == 16

\* rx_buffer: payload bytes of the socket's receive buffer
RX_BUFFER_LEN == 16384

PORT == 6454

IP_ADDRESS_SECOND_TO_LAST_NUMBER == 3

IP_ADDRESS_LAST_NUMBER == 10

U8 == 2 ^ 8

(* A 32-bit word (u32, and usize on the RP2040, a 32-bit Cortex-M0+) is    *)
(* kept as its two 16-bit halves <<hi, lo>>: the model checker's integers  *)
(* are 32-bit signed and cannot hold the upper half of the range.          *)
H16 == 2 ^ 16

Word == (0 .. H16 - 1) \X (0 .. H16 - 1)

\* the word of an integer -2^31 < x < 2^31, reduced modulo 2^32
ToWord(x) == <<(x \div H16) % H16, x % H16>>

RECURSIVE BitOr(_, _)
BitOr(a, b) ==
    IF a = 0 THEN b
    ELSE IF b = 0 THEN a
    ELSE (IF a % 2 = 1 \/ b % 2 = 1 THEN 1 ELSE 0) + 2 * BitOr(a \div 2, b \div 2)

RECURSIVE BitXor(_, _)
BitXor(a, b) ==
    IF a = 0 THEN b
    ELSE IF b = 0 THEN a
    ELSE ((a + b) % 2) + 2 * BitXor(a \div 2, b \div 2)

OrW(v, w) == <<BitOr(v[1], w[1]), BitOr(v[2], w[2])>>

\* w << k for 0 <= k < 32, bits shifted past bit 31 are lost
ShlW(w, k) ==
    IF k < 16
    THEN <<(w[1] * (2 ^ k) + (w[2] * (2 ^ k)) \div H16) % H16, (w[2] * (2 ^ k)) % H16>>
    ELSE <<(w[2] * (2 ^ (k - 16))) % H16, 0>>

Channels == 0 .. 3

address_uints == <<169, 254, IP_ADDRESS_SECOND_TO_LAST_NUMBER, IP_ADDRESS_LAST_NUMBER>>

hardware_address_uints == <<0, 0, 0, 0, 0, IP_ADDRESS_LAST_NUMBER>>

-----------------------------------------------------------------------------
(* Bounds of the model *)

\* datagrams the socket hands to the loop in one run
MaxDatagrams == 3

\* bytes of the longest pixel payload: 171 pixels, one more than a buffer holds
LongDataLen == 513

\* datagrams that reach the socket in one run of the queued receiver: the one
\* that starts a strip write and one more than the receive buffer has slots
MaxArrivals == 18

\* the first MaxVaried arrivals are any datagram of QueueTraffic, the later ones
\* repeat the first of them
MaxVaried == 2

\* the server's clock is read at the quarter seconds up to MaxNow of them
MaxNow == 4

\* commands the port thread is sent in one run
MaxBus == 4

\* the stations whose buttons are pressed: elder_i in 0 .. MaxStation
MaxStation == 1

Min(a, b) == IF a < b THEN a ELSE b
Max(a, b) == IF a > b THEN a ELSE b

-----------------------------------------------------------------------------
(* Datagrams.  A datagram is described by what the socket and the decoder  *)
(* (tiny_artnet::from_slice, a library outside this repository) look at:   *)
(* its length on the wire, whether its Art-Net framing is intact, its      *)
(* opcode and, for ArtDmx, the sequence byte, the three address fields and *)
(* the data bytes.  from is the source endpoint the socket reports.        *)

Controller == [addr |-> <<192, 0, 2, 9>>, port |-> PORT]

OtherHost == [addr |-> <<169, 254, 3, 1>>, port |-> 50000]

\* 18 bytes of ArtDmx header precede the data
Dmx(net, sub_net, universe, sequence, data) ==
    [op |-> "Dmx", intact |-> TRUE, wire_len |-> 18 + Len(data),
     net |-> net, sub_net |-> sub_net, universe |-> universe,
     sequence |-> sequence, data |-> data, from |-> Controller]

Plain(op, intact, wire_len, from) ==
    [op |-> op, intact |-> intact, wire_len |-> wire_len,
     net |-> 0, sub_net |-> 0, universe |-> 0,
     sequence |-> 0, data |-> <<>>, from |-> from]

NoDatagram == Plain("None", FALSE, 0, Controller)

LongData == [i \in 1 .. LongDataLen |-> (i % 250) + 1]

FiveBytes == <<10, 20, 30, 40, 50>>

\* (net, sub_net, universe) of port address 9990 is (39, 0, 6), of 9992 (39, 0, 8)
PixelTraffic ==
    { Dmx(0, 0, 0, 0, <<>>),                        \* port address 0
      Dmx(0, 0, 0, 0, FiveBytes),
      Dmx(0, 0, 0, 0, <<200, 100, 50, 1, 2, 3>>),
      Dmx(0, 0, 0, 0, LongData),
      Dmx(0, 0, 1, 0, FiveBytes),                   \* 1
      Dmx(0, 0, 2, 0, FiveBytes),                   \* 2
      Dmx(0, 0, 10, 0, FiveBytes),                  \* 10
      Dmx(0, 1, 4, 0, <<>>),                        \* 20
      Dmx(0, 1, 14, 0, FiveBytes),                  \* 30
      Dmx(39, 0, 6, 0, FiveBytes),                  \* 9990
      Dmx(39, 0, 8, 0, FiveBytes) }                 \* 9992

\* port address 31 is the one the sequence diagnostics watch
SequenceBytes == { 0, 1, 255 }

SequenceProbes == { Dmx(0, 1, 15, s, FiveBytes) : s \in SequenceBytes }

\* one byte more than buf holds; its bytes are never looked at
Oversized == Plain("Dmx", TRUE, BUF_LEN + 1, Controller)

Datagrams ==
    PixelTraffic \cup SequenceProbes \cup
    { Plain("Poll", TRUE, 14, Controller), Plain("Poll", TRUE, 14, OtherHost),
      Plain("Command", TRUE, 16, Controller), Plain("Sync", TRUE, 14, Controller),
      Plain("Dmx", FALSE, 12, Controller), Plain("PollReply", TRUE, 239, OtherHost),
      Oversized }

\* what arrives at the queued receiver: frames for channel 0
Filler == Dmx(0, 0, 0, 0, FiveBytes)

QueueTraffic == { Filler, Dmx(0, 0, 0, 0, <<200, 100, 50, 1, 2, 3>>) }

-----------------------------------------------------------------------------
(* Pure functions of the loop body *)

\* socket.recv_from(&mut buf): a datagram longer than buf is RecvError::Truncated
recv_from(d) == IF d.wire_len > BUF_LEN THEN "Err" ELSE "Ok"

\* tiny_artnet::from_slice(&buf[..packet_length]): the Art variant, or Err
from_slice(d) ==
    IF ~d.intact THEN "Err"
    ELSE IF d.op \in {"Dmx", "Poll", "Command", "Sync"} THEN d.op
    ELSE "Err"

Shl(x, k) == x * (2 ^ k)

pixels_per_universe == 512 \div 3

\* sub_net shifted by 3 instead of 4
PortAddressNarrowShift(net, sub_net, universe) ==
    Shl(net, 8) + Shl(sub_net, 3) + universe

PortAddress(net, sub_net, universe) == Shl(net, 8) + Shl(sub_net, 4) + universe

wrapping_add(x, y) == (x + y) % U8

\* sequence - last_sequence + 1 in u8: does either step leave 0..255
SkippedOverflows(sequence, last_seq) ==
    sequence - last_seq < 0 \/ sequence - last_seq + 1 >= U8

Skipped(sequence, last_seq) == (sequence - last_seq + 1) % U8

StartOfUniverse(p) == (p % 10) * pixels_per_universe

\* PIXEL_COUNT - start_of_universe_in_pixel_array in usize: does it underflow
TakeUnderflows(start) == PIXEL_COUNT - start < 0

\* (PIXEL_COUNT - start).max(0) where the subtraction wraps: .max(0) on an
\* unsigned word changes nothing
TakeCount(start) == ToWord(PIXEL_COUNT - start)

\* items of an iterator of `items` items that .take(n) lets through, n a word
Take(items, n) == IF n[1] > 0 THEN items ELSE Min(items, n[2])

\* the second comparison written <= instead of <
BranchChainOffByOne(p) ==
    IF p < 10 THEN {0}
    ELSE IF p <= 20 THEN {1}
    ELSE IF p < 30 THEN {2}
    ELSE IF p < 40 THEN {3}
    ELSE {}

\* the if / else-if chain on port_address: the buffers it selects
BranchChain(p) ==
    IF p < 10 THEN {0}
    ELSE IF p < 20 THEN {1}
    ELSE IF p < 30 THEN {2}
    ELSE IF p < 40 THEN {3}
    ELSE {}

\* the bytes packed into the low 24 bits instead of the high 24
PixelUintLowPacked(r, g, b) ==
    OrW(OrW(ShlW(ToWord(r), 16), ShlW(ToWord(g), 8)), ToWord(b))

\* (u32::from(p[0]) << 24) | (u32::from(p[1]) << 16) | (u32::from(p[2]) << 8)
PixelUint(r, g, b) ==
    OrW(OrW(ShlW(ToWord(r), 24), ShlW(ToWord(g), 16)), ShlW(ToWord(b), 8))

XorW(v, w) == <<BitXor(v[1], w[1]), BitXor(v[2], w[2])>>

\* *pixel_uint ^= .. instead of *pixel_uint = ..
ApplyDataXor(buf, start, data, take_n) ==
    LET chunks == Len(data) \div 3
        room == Max(PIXEL_COUNT - start, 0)
        n == Min(Take(chunks, take_n), room)
    IN [i \in 0 .. PIXEL_COUNT - 1 |->
          IF start <= i /\ i < start + n
          THEN XorW(buf[i],
                    PixelUint(data[3 * (i - start) + 1], data[3 * (i - start) + 2],
                              data[3 * (i - start) + 3]))
          ELSE buf[i]]

\* .skip(start + 1) instead of .skip(start)
ApplyDataSkipOneMore(buf, start, data, take_n) ==
    LET chunks == Len(data) \div 3
        room == Max(PIXEL_COUNT - (start + 1), 0)
        n == Min(Take(chunks, take_n), room)
    IN [i \in 0 .. PIXEL_COUNT - 1 |->
          IF start + 1 <= i /\ i < start + 1 + n
          THEN PixelUint(data[3 * (i - start - 1) + 1], data[3 * (i - start - 1) + 2],
                         data[3 * (i - start - 1) + 3])
          ELSE buf[i]]

\* the rest of the buffer behind the written pixels cleared
ApplyDataClearsRest(buf, start, data, take_n) ==
    LET chunks == Len(data) \div 3
        room == Max(PIXEL_COUNT - start, 0)
        n == Min(Take(chunks, take_n), room)
    IN [i \in 0 .. PIXEL_COUNT - 1 |->
          IF start <= i /\ i < start + n
          THEN PixelUint(data[3 * (i - start) + 1], data[3 * (i - start) + 2],
                         data[3 * (i - start) + 3])
          ELSE IF i >= start + n THEN ToWord(0)
          ELSE buf[i]]

\* data.chunks_exact(3).take(n).zip(buf.iter_mut().skip(start)).for_each(assign)
ApplyData(buf, start, data, take_n) ==
    LET chunks == Len(data) \div 3
        room == Max(PIXEL_COUNT - start, 0)
        n == Min(Take(chunks, take_n), room)
    IN [i \in 0 .. PIXEL_COUNT - 1 |->
          IF start <= i /\ i < start + n
          THEN PixelUint(data[3 * (i - start) + 1], data[3 * (i - start) + 2],
                         data[3 * (i - start) + 3])
          ELSE buf[i]]

\* let mut a = [0u8; 6]; a.iter_mut().zip(hw.iter()).for_each(|(a, b)| *a = *b)
MacCopy(hw) == [i \in 1 .. 6 |-> IF i <= Len(hw) THEN hw[i] ELSE 0]

PollReply ==
    [op |-> "PollReply", ip_address |-> address_uints, port |-> PORT,
     mac_address |-> MacCopy(hardware_address_uints)]

\* the strip written before the payload is stored
FrameHandedBefore(before, after) == before

\* strip_k.write_uints(&pixels_k_uints) follows the for_each that stores the
\* payload: the frame is the buffer as it is after the store
FrameHanded(before, after) == after

\* the test on start_of_universe_in_pixel_array left out
FlushAlways(start) == TRUE

\* if start_of_universe_in_pixel_array == 0 { strip.write_uints(..).await }
FlushDue(start) == start = 0

Line(msg, a, b) == [msg |-> msg, a |-> a, b |-> b]

RECURSIVE QueueBytes(_)
QueueBytes(q) == IF q = <<>> THEN 0 ELSE Head(q).wire_len + QueueBytes(Tail(q))

\* the socket's receive buffer takes a datagram while a packet slot and the
\* payload bytes for it are free
HasRoom(q, d) ==
    /\ Len(q) < RX_META_LEN
    /\ QueueBytes(q) + d.wire_len <= RX_BUFFER_LEN

-----------------------------------------------------------------------------
(* The desktop server: stations, poofers, relay commands and trigger       *)
(* effects.  Durations are in hundredths of a second.  A colour channel is  *)
(* a whole number of 720000ths of 1.0; f32 rounding is left out.            *)

RelayAddress(board_address, relay_number) ==
    [board_address |-> board_address, relay_number |-> relay_number]

ElderDefinition(octet, narrow, wide) ==
    [artnet_target_ip_last_octet |-> octet, relay_narrow |-> narrow, relay_wide |-> wide]

get_elder_defs ==
    << ElderDefinition(51, RelayAddress(2, 3), RelayAddress(2, 4)),
       ElderDefinition(52, RelayAddress(2, 5), RelayAddress(2, 6)),
       ElderDefinition(53, RelayAddress(2, 1), RelayAddress(2, 2)),
       ElderDefinition(54, RelayAddress(1, 1), RelayAddress(1, 2)),
       ElderDefinition(55, RelayAddress(1, 5), RelayAddress(1, 6)),
       ElderDefinition(56, RelayAddress(1, 3), RelayAddress(1, 4)),
       ElderDefinition(57, RelayAddress(3, 1), RelayAddress(3, 2)),
       ElderDefinition(58, RelayAddress(3, 5), RelayAddress(3, 6)),
       ElderDefinition(59, RelayAddress(3, 3), RelayAddress(3, 4)) >>

\* indices of the Vec<Elder>
ElderIndices == 0 .. Len(get_elder_defs) - 1

Poofer(relay_address) ==
    [relay_address |-> relay_address, on |-> FALSE, needs_to_send_command |-> FALSE]

create_elders ==
    [i \in ElderIndices |->
        [poofer_wide |-> Poofer(get_elder_defs[i + 1].relay_wide),
         poofer_narrow |-> Poofer(get_elder_defs[i + 1].relay_narrow)]]

\* a poof that never marks the poofer for sending
poof_unmarked(p, new_value_of_on) == [p EXCEPT !.on = new_value_of_on]

\* a poof that marks the poofer for sending at every call
poof_always_marks(p, new_value_of_on) ==
    [p EXCEPT !.on = new_value_of_on, !.needs_to_send_command = TRUE]

\* Poofer::poof
poof(p, new_value_of_on) ==
    IF p.on # new_value_of_on
    THEN [p EXCEPT !.on = new_value_of_on, !.needs_to_send_command = TRUE]
    ELSE p

\* only the wide poofers are turned off
turn_wide_poofers_off(eld) ==
    [i \in ElderIndices |-> [eld[i] EXCEPT !.poofer_wide = poof(@, FALSE)]]

turn_poofers_off(eld) ==
    [i \in ElderIndices |->
        [poofer_wide |-> poof(eld[i].poofer_wide, FALSE),
         poofer_narrow |-> poof(eld[i].poofer_narrow, FALSE)]]

DigitChars == <<"0", "1", "2", "3", "4", "5", "6", "7", "8", "9">>

\* Display of an unsigned integer: its decimal digits, most significant first
RECURSIVE Decimal(_)
Decimal(n) ==
    IF n < 10 THEN <<DigitChars[n + 1]>>
    ELSE Decimal(n \div 10) \o <<DigitChars[(n % 10) + 1]>>

\* {:02}: zero-padded on the left to at least two characters
ZeroPad2(s) == IF Len(s) < 2 THEN <<"0">> \o s ELSE s

\* the command with the board address not padded
CommandUnpadded(relay_address, on) ==
    <<"!">> \o Decimal(relay_address.board_address)
            \o Decimal(relay_address.relay_number)
            \o Decimal(IF on THEN 1 ELSE 0) \o <<".">>

\* format!("!{board_address:02}{relay_number}{on_digit}."), on_digit = on as u8
Command(relay_address, on) ==
    <<"!">> \o ZeroPad2(Decimal(relay_address.board_address))
            \o Decimal(relay_address.relay_number)
            \o Decimal(IF on THEN 1 ELSE 0) \o <<".">>

\* the narrow poofer served before the wide one
ElderCommandsNarrowFirst(e) ==
    (IF e.poofer_narrow.needs_to_send_command
     THEN <<Command(e.poofer_narrow.relay_address, e.poofer_narrow.on)>> ELSE <<>>)
    \o
    (IF e.poofer_wide.needs_to_send_command
     THEN <<Command(e.poofer_wide.relay_address, e.poofer_wide.on)>> ELSE <<>>)

\* what PooferBusPort::output sends for one elder: wide first, then narrow
ElderCommands(e) ==
    (IF e.poofer_wide.needs_to_send_command
     THEN <<Command(e.poofer_wide.relay_address, e.poofer_wide.on)>> ELSE <<>>)
    \o
    (IF e.poofer_narrow.needs_to_send_command
     THEN <<Command(e.poofer_narrow.relay_address, e.poofer_narrow.on)>> ELSE <<>>)

RECURSIVE OutputCommandsFrom(_, _)
OutputCommandsFrom(eld, i) ==
    IF i \notin ElderIndices THEN <<>>
    ELSE ElderCommands(eld[i]) \o OutputCommandsFrom(eld, i + 1)

\* the commands one call of PooferBusPort::output sends, in order
output_commands(eld) == OutputCommandsFrom(eld, 0)

\* the elders one call of PooferBusPort::output leaves
output_elders(eld) ==
    [i \in ElderIndices |->
        [eld[i] EXCEPT !.poofer_wide.needs_to_send_command = FALSE,
                       !.poofer_narrow.needs_to_send_command = FALSE]]

TriggerEffects == {"AllPoofNarrow", "RandomPoof", "Nonagram"}

\* RandomPoof { index: 0, time: 0. } and Nonagram { index: 0, time: 0. }
NewEffectObject == [index |-> 0, time |-> 0]

\* let period = 0.5
period == 50

poof_count == 900

\* the thresholds i * period, i in 0 .. poof_count - 1, passed between time and t
Crossed(time, t) ==
    {i \in 0 .. poof_count - 1 : time < i * period /\ t >= i * period}

RECURSIVE Advance(_, _)
Advance(index, count) ==
    IF count = 0 THEN index ELSE Advance((index + 4) % 9, count - 1)

OffNow(time, t) == time < poof_count * period /\ t >= poof_count * period

PoofOnlyNarrowAt(eld, index) ==
    [i \in ElderIndices |->
        [eld[i] EXCEPT !.poofer_narrow = poof(@, i = index)]]

\* Poof1 .. Poof9: let elder = &mut elders[0] .. elders[8]
PoofStation ==
    [Poof1 |-> 0, Poof2 |-> 1, Poof3 |-> 2, Poof4 |-> 3, Poof5 |-> 4,
     Poof6 |-> 5, Poof7 |-> 6, Poof8 |-> 7, Poof9 |-> 8]

\* the results render can have: [elders, nonagram, random_poof]
Renderings(effect, eld, nona, rand, program_time, effect_time) ==
    CASE effect = "AllPoofNarrow" ->
           {[elders |-> [i \in ElderIndices |->
                            [eld[i] EXCEPT !.poofer_narrow = poof(@, effect_time < 30)]],
             nonagram |-> nona, random_poof |-> rand]}
      [] effect = "Nonagram" ->
           LET stepped == Advance(nona.index, Cardinality(Crossed(nona.time, effect_time)))
               index == IF OffNow(nona.time, effect_time) THEN 10 ELSE stepped
           IN {[elders |-> PoofOnlyNarrowAt(eld, index),
                nonagram |-> [index |-> index, time |-> effect_time],
                random_poof |-> rand]}
      [] effect = "RandomPoof" ->
           LET drawn == IF Crossed(rand.time, effect_time) = {} THEN {rand.index}
                        ELSE 0 .. 8
               indices == IF OffNow(rand.time, effect_time) THEN {10} ELSE drawn
           IN {[elders |-> PoofOnlyNarrowAt(eld, index),
                nonagram |-> nona,
                random_poof |-> [index |-> index, time |-> effect_time]] :
                   index \in indices}
      [] effect \in DOMAIN PoofStation ->
           {[elders |-> [eld EXCEPT ![PoofStation[effect]] =
                            [poofer_wide |-> poof(@.poofer_wide, effect_time < 30),
                             poofer_narrow |-> poof(@.poofer_narrow, effect_time < 30)]],
             nonagram |-> nona, random_poof |-> rand]}
      [] effect = "AllPoofWide" ->
           {[elders |-> [i \in ElderIndices |->
                            [eld[i] EXCEPT !.poofer_wide = poof(@, effect_time < 30)]],
             nonagram |-> nona, random_poof |-> rand]}
      [] effect = "AllPoof" ->
           {[elders |-> [i \in ElderIndices |->
                            [poofer_wide |-> poof(eld[i].poofer_wide, TRUE),
                             poofer_narrow |-> poof(eld[i].poofer_narrow, TRUE)]],
             nonagram |-> nona, random_poof |-> rand]}
      [] OTHER ->
           {[elders |-> eld, nonagram |-> nona, random_poof |-> rand]}

\* the trigger effects of the runs that also write to the serial port
ShowEffects == {"Poof1"}

\* a selection that keeps the effect it is given
ToggledKeeps(current, i) == i

\* SelectTriggerEffect: the selected effect is deselected, any other is selected
Toggled(current, i) == IF current = i THEN "None" ELSE i

AmbientEffects == {"Pseudorandom", "RedToBlue", "Solid", "Light1"}

\* the ambient effect selected in the runs that also write to the serial port
ShowAmbientEffects == {"RedToBlue"}

ARTNET_FRAME_OUTPUT_PERIOD == 2

\* const PERIOD: f32 = 20., in hundredths of a second
PERIOD == 2000

\* crane_light as create_elders makes it
new_crane_lights == [i \in ElderIndices |-> [r |-> 0, g |-> 0, b |-> 0]]

\* colours carried over from the Tick before
StaleColours == crane_light

\* the colours as the for loop at the head of Tick leaves them
Black == [i \in ElderIndices |-> [r |-> 0, g |-> 0, b |-> 0]]

\* Pseudorandom's b for elder i (column i + 1) at program_time 25 * k (row
\* k + 1), in 720000ths, rounded down
PseudorandomB ==
    <<
       <<632448, 309196, 32652, 57070, 360000, 662929, 687347, 410803, 87551>>,
       <<598191, 255682, 12082, 98362, 432715, 698123, 642938, 319484, 34445>>,
       <<557536, 202391, 1259, 150682, 504647, 717265, 580769, 228541, 4772>>,
       <<510690, 151112, 1767, 212962, 572141, 717812, 503367, 144631, 2650>>,
       <<458189, 103882, 14881, 283381, 631248, 698135, 414755, 74655, 30137>>,
       <<400946, 62918, 41416, 359349, 677976, 657814, 320345, 25126, 86698>>,
       <<340281, 30514, 81572, 437539, 708592, 597896, 226676, 1461, 168887>>,
       <<277928, 8907, 134802, 514003, 719978, 521042, 140962, 7260, 270327>>
    >>

\* the colours render leaves; ambient effects write crane_light only, and none
\* of them reads effect_time, so ambient_effect_start is not kept
AmbientRender(effect, lights, program_time) ==
    CASE effect = "Pseudorandom" ->
           [i \in ElderIndices |->
               LET b == PseudorandomB[program_time \div 25 + 1][i + 1]
               IN [r |-> (7 * b) \div 10, g |-> (7 * b) \div 10, b |-> b]]
      [] effect = "RedToBlue" ->
           [i \in ElderIndices |->
               LET x == (((program_time % PERIOD) * 720000) \div PERIOD
                         + (i * 720000) \div Len(get_elder_defs)) % 720000
               IN [lights[i] EXCEPT !.r = 720000 - x, !.b = x]]
      [] effect = "Solid" ->
           [i \in ElderIndices |-> [r |-> 504000, g |-> 504000, b |-> 720000]]
      [] effect = "Light1" ->
           [i \in ElderIndices |->
               IF i = 0 THEN [r |-> 720000, g |-> 0, b |-> 720000]
               ELSE [r |-> 0, g |-> 0, b |-> 0]]

GAMMA ==
    <<
       0, 0, 0, 0, 0, 0, 0, 0, 0, 0, 0, 0, 0, 0, 0, 0,
       0, 0, 0, 0, 0, 0, 0, 0, 0, 0, 0, 0, 1, 1, 1, 1,
       1, 1, 1, 1, 1, 1, 1, 1, 1, 2, 2, 2, 2, 2, 2, 2,
       2, 3, 3, 3, 3, 3, 3, 3, 4, 4, 4, 4, 4, 5, 5, 5,
       5, 6, 6, 6, 6, 7, 7, 7, 7, 8, 8, 8, 9, 9, 9, 10,
       10, 10, 11, 11, 11, 12, 12, 13, 13, 13, 14, 14, 15, 15, 16, 16,
       17, 17, 18, 18, 19, 19, 20, 20, 21, 21, 22, 22, 23, 24, 24, 25,
       25, 26, 27, 27, 28, 29, 29, 30, 31, 32, 32, 33, 34, 35, 35, 36,
       37, 38, 39, 39, 40, 41, 42, 43, 44, 45, 46, 47, 48, 49, 50, 50,
       51, 52, 54, 55, 56, 57, 58, 59, 60, 61, 62, 63, 64, 66, 67, 68,
       69, 70, 72, 73, 74, 75, 77, 78, 79, 81, 82, 83, 85, 86, 87, 89,
       90, 92, 93, 95, 96, 98, 99, 101, 102, 104, 105, 107, 109, 110, 112, 114,
       115, 117, 119, 120, 122, 124, 126, 127, 129, 131, 133, 135, 137, 138, 140, 142,
       144, 146, 148, 150, 152, 154, 156, 158, 160, 162, 164, 167, 169, 171, 173, 175,
       177, 180, 182, 184, 186, 189, 191, 193, 196, 198, 200, 203, 205, 208, 210, 213,
       215, 218, 220, 223, 225, 228, 231, 233, 236, 239, 241, 244, 247, 249, 252, 255
    >>

\* GAMMA[(c * 255.) as usize]
GammaByte(c) == GAMMA[(c * 255) \div 720000 + 1]

\* a sender that puts red before green
ArtnetOutputRgb(lights) ==
    [j \in 1 .. Len(get_elder_defs) |->
        [to |-> get_elder_defs[j].artnet_target_ip_last_octet,
         port_address |-> 0,
         pixel |-> <<GammaByte(lights[j - 1].r), GammaByte(lights[j - 1].g),
                     GammaByte(lights[j - 1].b)>>]]

\* ArtnetOutputSocket::output: one ArtCommand::Output per elder, whose 170
\* pixels all hold the elder's colour as gamma-corrected bytes g, r, b
ArtnetOutput(lights) ==
    [j \in 1 .. Len(get_elder_defs) |->
        [to |-> get_elder_defs[j].artnet_target_ip_last_octet,
         port_address |-> 0,
         pixel |-> <<GammaByte(lights[j - 1].g), GammaByte(lights[j - 1].r),
                     GammaByte(lights[j - 1].b)>>]]

\* a frame counter that stands still
FrameCountHeld(count) == count

\* (self.artnet_output_frame_count + 1) % ARTNET_FRAME_OUTPUT_PERIOD
NextFrameCount(count) == (count + 1) % ARTNET_FRAME_OUTPUT_PERIOD

Instants == {25 * k : k \in 0 .. MaxNow}

-----------------------------------------------------------------------------
(* The state machine *)

Init ==
    /\ pc = "recv_from"
    /\ overflow_checks \in BOOLEAN
    /\ pixels_uints = [k \in Channels |-> [i \in 0 .. PIXEL_COUNT - 1 |-> ToWord(0)]]
    /\ last_sequence = 0
    /\ port_address = 0
    /\ start_of_universe_in_pixel_array = 0
    /\ branch = {}
    /\ strip_writes = [k \in Channels |-> 0]
    /\ frame_out = [i \in 0 .. PIXEL_COUNT - 1 |-> ToWord(0)]
    /\ sent = <<>>
    /\ log = Line("Artnet port bound", 0, 0)
    /\ last = NoDatagram
    /\ repeated = FALSE
    /\ n_recv = 0
    /\ panic_at = 0
    /\ rx_queue = <<>>
    /\ arrived = 0
    /\ dropped = 0
    /\ arrived_during_write = 0
    /\ elders = create_elders
    /\ current_trigger_effect = "None"
    /\ trigger_effect_start = 0
    /\ now = 0
    /\ nonagram = NewEffectObject
    /\ random_poof = NewEffectObject
    /\ poofer_port = FALSE
    /\ poofer_output_enabled = FALSE
    /\ poofer_output_enabled_once = FALSE
    /\ bus = <<>>
    /\ crane_light = new_crane_lights
    /\ current_ambient_effect = "Pseudorandom"
    /\ artnet_output_enabled = TRUE
    /\ artnet_output_frame_count = 0
    /\ artnet_out = <<>>
    /\ main_pc = [op |-> "receive_artnet", strip |-> 0]
    /\ pixels = <<0, 64, 255>>
    /\ strips = [k \in Channels |-> IF k = 0 THEN <<0, 64, 255>> ELSE <<0, 0, 0>>]
    /\ boot_loops = 0
    /\ bootsel_pc = "check"
    /\ bootsel_pressed = FALSE
    /\ usb_boot = FALSE
    /\ writer_pc = "none"
    /\ command = <<>>
    /\ written = <<>>

Panic(line) ==
    /\ pc' = "panicked"
    /\ panic_at' = line

\* a receive loop that takes the next datagram while a strip write is in flight
DequeueDuringWrite(d) ==
    /\ pc \in {"recv_from", "write_uints"}
    /\ n_recv < MaxDatagrams
    /\ n_recv' = n_recv + 1
    /\ last' = d
    /\ repeated' = (n_recv > 0 /\ d = last)
    /\ UNCHANGED <<overflow_checks, server_vars, main_vars, writer_vars>>

\* recv_from returns: the loop body starts on datagram d
Dequeue(d) ==
    /\ pc = "recv_from"
    /\ n_recv < MaxDatagrams
    /\ n_recv' = n_recv + 1
    /\ last' = d
    /\ repeated' = (n_recv > 0 /\ d = last)
    /\ UNCHANGED <<overflow_checks, server_vars, main_vars, writer_vars>>

\* line 71: .unwrap() on RecvError::Truncated
RecvTruncated(d) ==
    /\ Dequeue(d)
    /\ recv_from(d) = "Err"
    /\ Panic(71)
    /\ UNCHANGED <<pixels_uints, last_sequence, port_address,
                   start_of_universe_in_pixel_array, branch, strip_writes, frame_out, sent, log>>

Decoded(d, kind) ==
    /\ Dequeue(d)
    /\ recv_from(d) = "Ok"
    /\ from_slice(d) = kind

DmxBody(d) ==
    LET pa == PortAddress(d.net, d.sub_net, d.universe)
        skip_print == pa = 31 /\ d.sequence # wrapping_add(last_sequence, 1)
        start == StartOfUniverse(pa)
        sel == BranchChain(pa)
    IN /\ port_address' = pa
       /\ sent' = sent
       /\ IF skip_print /\ overflow_checks /\ SkippedOverflows(d.sequence, last_sequence)
          THEN /\ Panic(110)
               /\ branch' = {}
               /\ UNCHANGED <<pixels_uints, last_sequence,
                              start_of_universe_in_pixel_array, strip_writes, frame_out, log>>
          ELSE /\ last_sequence' = IF pa = 31 THEN d.sequence ELSE last_sequence
               /\ log' = IF skip_print
                         THEN Line("seq skipped", d.sequence,
                                   Skipped(d.sequence, last_sequence))
                         ELSE log
               /\ start_of_universe_in_pixel_array' = start
               /\ IF overflow_checks /\ TakeUnderflows(start)
                  THEN /\ Panic(122)
                       /\ branch' = {}
                       /\ UNCHANGED <<pixels_uints, strip_writes, frame_out>>
                  ELSE /\ branch' = sel
                       /\ pixels_uints' =
                            [k \in Channels |->
                               IF k \in sel
                               THEN ApplyData(pixels_uints[k], start, d.data,
                                              TakeCount(start))
                               ELSE pixels_uints[k]]
                       /\ IF sel # {} /\ FlushDue(start)
                          THEN /\ strip_writes' =
                                    [k \in Channels |->
                                       IF k \in sel THEN strip_writes[k] + 1
                                       ELSE strip_writes[k]]
                               /\ frame_out' =
                                    LET k == CHOOSE c \in sel : TRUE
                                    IN FrameHanded(pixels_uints[k], pixels_uints'[k])
                               /\ pc' = "write_uints"
                          ELSE /\ strip_writes' = strip_writes
                               /\ frame_out' = frame_out
                               /\ pc' = "recv_from"
                       /\ panic_at' = panic_at

DmxArm(d) ==
    /\ Decoded(d, "Dmx")
    /\ DmxBody(d)

\* strip_k.write_uints(..).await completes
StripWriteDone ==
    /\ pc = "write_uints"
    /\ pc' = "recv_from"
    /\ UNCHANGED <<overflow_checks, pixels_uints, last_sequence, port_address,
                   start_of_universe_in_pixel_array, branch, strip_writes, frame_out, sent,
                   log, last, repeated, n_recv, panic_at,
                   rx_queue, arrived, dropped, arrived_during_write, server_vars, main_vars, writer_vars>>

\* the reply sent to the Art-Net port of the poller, not to its source port
PollBodyFixedPort(d) ==
    /\ sent' = Append(sent, [to |-> [addr |-> d.from.addr, port |-> PORT],
                             payload |-> PollReply])
    /\ log' = Line(" to", d.from.addr[4], d.from.port)
    /\ pc' = "send_to"
    /\ UNCHANGED <<pixels_uints, last_sequence, port_address,
                   start_of_universe_in_pixel_array, branch, strip_writes, frame_out, panic_at>>

PollBody(d) ==
    /\ sent' = Append(sent, [to |-> d.from, payload |-> PollReply])
    /\ log' = Line(" to", d.from.addr[4], d.from.port)
    /\ pc' = "send_to"
    /\ UNCHANGED <<pixels_uints, last_sequence, port_address,
                   start_of_universe_in_pixel_array, branch, strip_writes, frame_out, panic_at>>

PollArm(d) ==
    /\ Decoded(d, "Poll")
    /\ PollBody(d)

SendDone(msg) ==
    /\ pc = "send_to"
    /\ pc' = "recv_from"
    /\ log' = Line(msg, 0, 0)
    /\ UNCHANGED <<overflow_checks, pixels_uints, last_sequence, port_address,
                   start_of_universe_in_pixel_array, branch, strip_writes, frame_out, sent,
                   last, repeated, n_recv, panic_at,
                   rx_queue, arrived, dropped, arrived_during_write, server_vars, main_vars, writer_vars>>

\* socket.send_to(..).await returns Ok
SendOk == SendDone("sent poll reply")

\* a failed send attempted a second time
SendErrRetry ==
    /\ pc = "send_to"
    /\ pc' = "recv_from"
    /\ sent' = Append(sent, sent[Len(sent)])
    /\ log' = Line("error sending poll reply", 0, 0)
    /\ UNCHANGED <<overflow_checks, pixels_uints, last_sequence, port_address,
                   start_of_universe_in_pixel_array, branch, strip_writes, frame_out,
                   last, repeated, n_recv, panic_at,
                   rx_queue, arrived, dropped, arrived_during_write, server_vars, main_vars, writer_vars>>

\* socket.send_to(..).await returns Err
SendErr == SendDone("error sending poll reply")

LogOnly(msg) ==
    /\ log' = Line(msg, 0, 0)
    /\ pc' = "recv_from"
    /\ UNCHANGED <<pixels_uints, last_sequence, port_address,
                   start_of_universe_in_pixel_array, branch, strip_writes, frame_out, sent,
                   panic_at>>

CommandBody(d) == LogOnly("received artnet: command")

CommandArm(d) ==
    /\ Decoded(d, "Command")
    /\ CommandBody(d)

\* a Sync that flushes channel 0, as the protocol's frame synchronisation would
SyncBodyFlushes(d) ==
    /\ log' = Line("received artnet: sync", 0, 0)
    /\ strip_writes' = [strip_writes EXCEPT ![0] = @ + 1]
    /\ frame_out' = pixels_uints[0]
    /\ pc' = "write_uints"
    /\ UNCHANGED <<pixels_uints, last_sequence, port_address,
                   start_of_universe_in_pixel_array, branch, sent, panic_at>>

SyncBody(d) == LogOnly("received artnet: sync")

SyncArm(d) ==
    /\ Decoded(d, "Sync")
    /\ SyncBody(d)

\* the decode result unwrapped instead of matched
ErrBodyUnwrap(d) ==
    /\ Panic(92)
    /\ UNCHANGED <<pixels_uints, last_sequence, port_address,
                   start_of_universe_in_pixel_array, branch, strip_writes, frame_out, sent, log>>

ErrBody(d) == LogOnly("received artnet: error")

ErrArm(d) ==
    /\ Decoded(d, "Err")
    /\ ErrBody(d)

\* the datagram is handed to recv_from as it comes, the receive buffer left out
Direct == UNCHANGED <<rx_queue, arrived, dropped, arrived_during_write>>

Next ==
    \/ \E d \in Datagrams : RecvTruncated(d) /\ Direct
    \/ \E d \in Datagrams : DmxArm(d) /\ Direct
    \/ \E d \in Datagrams : PollArm(d) /\ Direct
    \/ \E d \in Datagrams : CommandArm(d) /\ Direct
    \/ \E d \in Datagrams : SyncArm(d) /\ Direct
    \/ \E d \in Datagrams : ErrArm(d) /\ Direct
    \/ StripWriteDone
    \/ SendOk
    \/ SendErr

Spec == Init /\ [][Next]_vars

(* The receiver behind its socket.  The network stack is another task of   *)
(* the same executor: it runs whenever the receive loop is suspended, at    *)
(* recv_from or inside write_uints, and puts each arriving datagram into    *)
(* the socket's receive buffer, or drops it when the buffer has no room     *)
(* (the socket library's rule).  recv_from takes the oldest datagram.       *)

\* the network stack delivers datagram d to the socket
Arrive(d) ==
    /\ pc # "panicked"
    /\ arrived < MaxArrivals
    /\ n_recv < MaxDatagrams
    /\ arrived >= MaxVaried => d = Filler
    /\ arrived' = arrived + 1
    /\ IF HasRoom(rx_queue, d)
       THEN /\ rx_queue' = Append(rx_queue, d)
            /\ dropped' = dropped
       ELSE /\ rx_queue' = rx_queue
            /\ dropped' = dropped + 1
    /\ arrived_during_write' =
          IF pc = "write_uints" THEN arrived_during_write + 1 ELSE arrived_during_write
    /\ UNCHANGED <<pc, overflow_checks, pixels_uints, last_sequence, port_address,
                   start_of_universe_in_pixel_array, branch, strip_writes, frame_out, sent,
                   log, last, repeated, n_recv, panic_at, server_vars, main_vars, writer_vars>>

\* recv_from returns the oldest datagram of the receive buffer
Received(d) ==
    /\ rx_queue # <<>>
    /\ d = Head(rx_queue)
    /\ rx_queue' = Tail(rx_queue)
    /\ arrived_during_write' = 0
    /\ UNCHANGED <<arrived, dropped>>

NextQueue ==
    \/ \E d \in QueueTraffic : Arrive(d)
    \/ \E d \in QueueTraffic : DmxArm(d) /\ Received(d)
    \/ StripWriteDone

SpecQueue == Init /\ [][NextQueue]_vars

(* The desktop server: Haven::update, one action per Message.  The port    *)
(* thread takes the commands off the channel in the order they were sent.  *)

\* an output that the once flag does not grant
OutputDueWhileEnabled == poofer_port /\ poofer_output_enabled

\* if let Some(poofer_port) = .. { if self.poofer_output_enabled ||
\* self.poofer_output_enabled_once {
OutputDue == poofer_port /\ (poofer_output_enabled \/ poofer_output_enabled_once)

\* Message::Tick(now): clear the colours, render the ambient and the trigger
\* effect, send the Art-Net frame, then output to the poofers
Tick(n) ==
    /\ n \in Instants
    /\ n >= now
    /\ UNCHANGED <<node_vars, main_vars, writer_vars>>
    /\ now' = n
    /\ crane_light' = AmbientRender(current_ambient_effect, Black, n)
    /\ IF artnet_output_enabled
       THEN /\ artnet_out' = IF artnet_output_frame_count = 0
                             THEN ArtnetOutput(crane_light') ELSE <<>>
            /\ artnet_output_frame_count' = NextFrameCount(artnet_output_frame_count)
       ELSE /\ artnet_out' = <<>>
            /\ UNCHANGED artnet_output_frame_count
    /\ \E rendered \in Renderings(current_trigger_effect, elders, nonagram, random_poof,
                                   n, n - trigger_effect_start) :
          /\ nonagram' = rendered.nonagram
          /\ random_poof' = rendered.random_poof
          /\ IF OutputDue
             THEN /\ bus' = bus \o output_commands(rendered.elders)
                  /\ elders' = output_elders(rendered.elders)
                  /\ poofer_output_enabled_once' = FALSE
             ELSE /\ elders' = rendered.elders
                  /\ UNCHANGED <<bus, poofer_output_enabled_once>>
    /\ Len(bus') <= MaxBus
    /\ UNCHANGED <<current_trigger_effect, trigger_effect_start, poofer_port,
                   poofer_output_enabled, current_ambient_effect, artnet_output_enabled>>

\* Message::ArtnetOutputCheckboxPressed
ArtnetOutputCheckboxPressed ==
    /\ UNCHANGED <<node_vars, main_vars, writer_vars>>
    /\ artnet_output_enabled' = ~artnet_output_enabled
    /\ UNCHANGED <<elders, current_trigger_effect, trigger_effect_start, now, nonagram,
                   random_poof, poofer_port, poofer_output_enabled,
                   poofer_output_enabled_once, bus, crane_light,
                   current_ambient_effect, artnet_output_frame_count, artnet_out>>

PooferOutputCheckboxPressed ==
    /\ UNCHANGED <<node_vars, main_vars, writer_vars>>
    /\ IF poofer_output_enabled
       THEN /\ elders' = turn_poofers_off(elders)
            /\ poofer_output_enabled_once' = TRUE
            /\ poofer_output_enabled' = FALSE
       ELSE /\ poofer_output_enabled' = TRUE
            /\ UNCHANGED <<elders, poofer_output_enabled_once>>
    /\ UNCHANGED <<current_trigger_effect, trigger_effect_start, now, nonagram,
                   random_poof, poofer_port, bus,
                   crane_light, current_ambient_effect,
                   artnet_output_enabled, artnet_output_frame_count, artnet_out>>

SelectAmbientEffect(effect) ==
    /\ UNCHANGED <<node_vars, main_vars, writer_vars>>
    /\ elders' = turn_poofers_off(elders)
    /\ current_ambient_effect' = effect
    /\ UNCHANGED <<current_trigger_effect, trigger_effect_start, now, nonagram,
                   random_poof, poofer_port, poofer_output_enabled,
                   poofer_output_enabled_once, bus, crane_light,
                   artnet_output_enabled, artnet_output_frame_count, artnet_out>>

\* Message::SelectTriggerEffect(i), handled at the Instant of the latest Tick
SelectTriggerEffect(effect) ==
    /\ UNCHANGED <<node_vars, main_vars, writer_vars>>
    /\ elders' = turn_poofers_off(elders)
    /\ current_trigger_effect' = Toggled(current_trigger_effect, effect)
    /\ trigger_effect_start' = now
    /\ UNCHANGED <<now, nonagram, random_poof, poofer_port, poofer_output_enabled,
                   poofer_output_enabled_once, bus,
                   crane_light, current_ambient_effect,
                   artnet_output_enabled, artnet_output_frame_count, artnet_out>>

SelectSerialPort ==
    /\ UNCHANGED <<node_vars, main_vars>>
    /\ poofer_port' = TRUE
    /\ writer_pc' = "recv"
    /\ UNCHANGED <<command, written>>
    /\ UNCHANGED <<elders, current_trigger_effect, trigger_effect_start, now, nonagram,
                   random_poof, poofer_output_enabled, poofer_output_enabled_once, bus,
                   crane_light, current_ambient_effect,
                   artnet_output_enabled, artnet_output_frame_count, artnet_out>>

Press(elder_i, down) ==
    /\ UNCHANGED <<node_vars, main_vars, writer_vars>>
    /\ elders' = [elders EXCEPT ![elder_i] =
                     [poofer_narrow |-> poof(@.poofer_narrow, down),
                      poofer_wide |-> poof(@.poofer_wide, down)]]
    /\ UNCHANGED <<current_trigger_effect, trigger_effect_start, now, nonagram,
                   random_poof, poofer_port, poofer_output_enabled,
                   poofer_output_enabled_once, bus,
                   crane_light, current_ambient_effect,
                   artnet_output_enabled, artnet_output_frame_count, artnet_out>>

\* Message::ElderDown(elder_i)
ElderDown(elder_i) == Press(elder_i, TRUE)

\* Message::ElderUp(elder_i)
ElderUp(elder_i) == Press(elder_i, FALSE)

\* the operator works the station buttons and the poofer output, no trigger
\* effect is selected
NextServer ==
    \/ \E n \in Instants : Tick(n)
    \/ PooferOutputCheckboxPressed
    \/ SelectAmbientEffect(current_ambient_effect)
    \/ SelectSerialPort
    \/ \E elder_i \in 0 .. MaxStation : ElderDown(elder_i)
    \/ \E elder_i \in 0 .. MaxStation : ElderUp(elder_i)

\* the node's build has no part in the server
InitServer == Init /\ overflow_checks

SpecServer == InitServer /\ [][NextServer]_vars

\* the operator selects and deselects trigger effects, no serial port is selected
NextEffects ==
    \/ \E n \in Instants : Tick(n)
    \/ \E effect \in TriggerEffects : SelectTriggerEffect(effect)

SpecEffects == InitServer /\ [][NextEffects]_vars

\* the lights alone: ambient effects and the Art-Net output
NextLights ==
    \/ \E n \in Instants : Tick(n)
    \/ ArtnetOutputCheckboxPressed
    \/ \E effect \in AmbientEffects : SelectAmbientEffect(effect)

SpecLights == InitServer /\ [][NextLights]_vars

\* the whole show: an ambient effect, a trigger effect, the first station's
\* button and the poofer output
NextShow ==
    \/ \E n \in Instants : Tick(n)
    \/ PooferOutputCheckboxPressed
    \/ \E effect \in ShowAmbientEffects : SelectAmbientEffect(effect)
    \/ \E effect \in ShowEffects : SelectTriggerEffect(effect)
    \/ SelectSerialPort
    \/ ElderDown(0)
    \/ ElderUp(0)

SpecShow == InitServer /\ [][NextShow]_vars

TypeOK ==
    /\ pc \in {"main", "recv_from", "write_uints", "send_to", "panicked"}
    /\ overflow_checks \in BOOLEAN
    /\ \A k \in Channels :
         /\ DOMAIN pixels_uints[k] = 0 .. PIXEL_COUNT - 1
         /\ \A i \in 0 .. PIXEL_COUNT - 1 : pixels_uints[k][i] \in Word
    /\ last_sequence \in 0 .. U8 - 1
    /\ branch \subseteq Channels
    /\ n_recv \in 0 .. MaxDatagrams
    /\ last \in Datagrams \cup {NoDatagram}

-----------------------------------------------------------------------------
(* Properties *)

Zero == ToWord(0)

\* the port address of datagram d by the Art-Net bit layout
P(d) == d.net * 256 + d.sub_net * 16 + d.universe

\* the last datagram received was decoded as kind
Handled(kind) ==
    /\ n_recv > 0
    /\ recv_from(last) = "Ok"
    /\ from_slice(last) = kind

\* this step receives a datagram that decodes as kind
Handles(kind) ==
    /\ n_recv' = n_recv + 1
    /\ recv_from(last') = "Ok"
    /\ from_slice(last') = kind

\* C1: the receive loop never terminates or panics, whatever datagrams arrive:
\* after each datagram the task is back at a suspension point of the loop.
C1_LoopNeverStops == pc # "panicked"

NetValues == {0, 1, 39, 127}

\* C3: the port address is net * 256 + sub_net * 16 + universe, and for sub_net
\* and universe in 0..15 no other (net, sub_net, universe) yields the same address.
C3_PortAddressLayout ==
    Handled("Dmx") =>
        /\ port_address = last.net * 256 + last.sub_net * 16 + last.universe
        /\ \A n \in NetValues, sn \in 0 .. 15, u \in 0 .. 15 :
             PortAddress(n, sn, u) = port_address =>
                 <<n, sn, u>> = <<last.net, last.sub_net, last.universe>>

C3_Witness ==
    /\ Handled("Dmx")
    /\ last.net = 39
    /\ last.universe = 6
    /\ port_address = 9990

\* C4: a pixel-data message whose offset plus pixel count exceeds PIXEL_COUNT is
\* clipped: PIXEL_COUNT - offset does not fail, the write does not panic (no
\* panic at line 122, where the clipped iterator is built), and every buffer
\* still holds PIXEL_COUNT defined words.
C4_ClippedWriteNeverFails ==
    (Handled("Dmx") /\ (P(last) % 10) * 170 + Len(last.data) \div 3 > PIXEL_COUNT) =>
        /\ panic_at # 122
        /\ \A k \in Channels :
             /\ DOMAIN pixels_uints[k] = 0 .. PIXEL_COUNT - 1
             /\ \A i \in 0 .. PIXEL_COUNT - 1 : pixels_uints[k][i] \in Word

\* C5: a pixel-data message for a channel outside 0..3 (p / 10 >= 4) is dropped:
\* no buffer changes, no strip is written, nothing is sent, and the loop goes on.
C5_OutOfRangeDropped ==
    [][(Handles("Dmx") /\ P(last') \div 10 >= 4) =>
          /\ pixels_uints' = pixels_uints
          /\ strip_writes' = strip_writes
          /\ sent' = sent
          /\ pc' = "recv_from"]_vars

\* the word the receiver stores for the first three bytes of the last datagram
FirstPixel == <<last.data[1] * 256 + last.data[2], last.data[3] * 256>>

\* C6 as stated: for every p with p / 10 in 0..3 and every universe index
\* p % 10 in 0..9, a message with at least 3 data bytes makes
\* buffer[(p % 10) * pixels_per_universe] of channel p / 10 the decoded pixel.
C6_EveryUniverseFillsItsSlice ==
    (Handled("Dmx") /\ P(last) \div 10 \in Channels /\ Len(last.data) >= 3) =>
        /\ (P(last) % 10) * pixels_per_universe \in DOMAIN pixels_uints[P(last) \div 10]
        /\ pixels_uints[P(last) \div 10][(P(last) % 10) * pixels_per_universe] = FirstPixel

\* C6 amended: the same for the port addresses whose offset (p % 10) *
\* pixels_per_universe lies inside the buffer, i.e. is below PIXEL_COUNT.
C6_UniverseInsideBufferFillsItsSlice ==
    (/\ Handled("Dmx")
     /\ P(last) \div 10 \in Channels
     /\ Len(last.data) >= 3
     /\ (P(last) % 10) * pixels_per_universe < PIXEL_COUNT) =>
        pixels_uints[P(last) \div 10][(P(last) % 10) * pixels_per_universe] = FirstPixel

C6_Witness ==
    /\ Handled("Dmx")
    /\ P(last) = 10
    /\ last.data = FiveBytes
    /\ pixels_uints[1][0] = <<10 * 256 + 20, 30 * 256>>

\* C7: processing the same pixel-data message a second time in a row leaves all
\* four buffers as the first processing left them.
C7_Idempotent ==
    [][(n_recv > 0 /\ Handled("Dmx") /\ Handles("Dmx") /\ last' = last) =>
          pixels_uints' = pixels_uints]_vars

C7_Witness ==
    /\ repeated
    /\ Handled("Dmx")
    /\ pc # "panicked"
    /\ n_recv = 3
    /\ P(last) = 0
    /\ last.data = FiveBytes
    /\ pixels_uints[0][0] = <<10 * 256 + 20, 30 * 256>>
    /\ pixels_uints[0][1] # Zero

\* C8: a poll from endpoint A causes exactly one send_to call, to A (address and
\* port), carrying a PollReply with the node's IPv4 address, its 6-byte hardware
\* address and the Art-Net port; no other step sends anything.
C8_PollAnsweredOnce ==
    [][IF Handles("Poll")
       THEN /\ Len(sent') = Len(sent) + 1
            /\ SubSeq(sent', 1, Len(sent)) = sent
            /\ sent'[Len(sent')].to = last'.from
            /\ sent'[Len(sent')].payload.op = "PollReply"
            /\ sent'[Len(sent')].payload.ip_address = address_uints
            /\ sent'[Len(sent')].payload.mac_address = hardware_address_uints
            /\ Len(sent'[Len(sent')].payload.mac_address) = 6
            /\ sent'[Len(sent')].payload.port = PORT
       ELSE sent' = sent]_vars

C8_Witness ==
    /\ Handled("Poll")
    /\ last.from = OtherHost
    /\ pc = "recv_from"
    /\ Len(sent) = 1
    /\ sent[1].to = OtherHost

\* C9: a datagram that fails to decode changes neither the buffers nor
\* last_sequence, starts no strip write, sends nothing, and the loop goes on to
\* the next receive.
C9_DecodeErrorNoEffect ==
    [][Handles("Err") =>
          /\ pixels_uints' = pixels_uints
          /\ last_sequence' = last_sequence
          /\ strip_writes' = strip_writes
          /\ sent' = sent
          /\ pc' = "recv_from"]_vars

C9_Witness ==
    /\ Handled("Err")
    /\ n_recv >= 2
    /\ pc = "recv_from"
    /\ pixels_uints[0][0] # Zero
    /\ log.msg = "received artnet: error"

\* C10: strip k is written exactly once for each pixel-data message with port
\* address 10 * k, whatever its payload length, and by no other step.
C10_FlushOnOffsetZero ==
    [][\A k \in Channels :
          strip_writes'[k] =
              strip_writes[k] +
                  (IF Handles("Dmx") /\ P(last') = 10 * k THEN 1 ELSE 0)]_vars

C10_Witness ==
    /\ Handled("Dmx")
    /\ P(last) = 20
    /\ last.data = <<>>
    /\ strip_writes = [k \in Channels |-> IF k = 2 THEN 1 ELSE 0]

\* C11 as stated: the frame handed to the strip driver by a flush is the buffer
\* accumulated before the triggering message, without that message's payload.
C11_FlushHandsPreviousBuffer ==
    [][\A k \in Channels :
          strip_writes'[k] = strip_writes[k] + 1 => frame_out' = pixels_uints[k]]_vars

\* C11 amended: the frame handed to the strip driver by a flush is the channel
\* buffer after the triggering message's payload has been stored in it.
C11_FlushHandsUpdatedBuffer ==
    [][\A k \in Channels :
          strip_writes'[k] = strip_writes[k] + 1 =>
              /\ frame_out' = pixels_uints'[k]
              /\ (Len(last'.data) >= 3 => frame_out'[0] = FirstPixel')]_vars

C11_Witness ==
    /\ pc = "write_uints"
    /\ n_recv = 2
    /\ P(last) = 0
    /\ last.data = FiveBytes
    /\ frame_out[0] = <<10 * 256 + 20, 30 * 256>>
    /\ frame_out[1] = <<1 * 256 + 2, 3 * 256>>

\* the pixels of datagram d that fit into a buffer from its offset on
WrittenCount(d) ==
    IF (P(d) % 10) * 170 >= PIXEL_COUNT THEN 0
    ELSE Min(Len(d.data) \div 3, PIXEL_COUNT - (P(d) % 10) * 170)

\* index i of channel k lies in the range datagram d writes
Covers(d, k, i) ==
    /\ P(d) \div 10 = k
    /\ (P(d) % 10) * 170 <= i
    /\ i < (P(d) % 10) * 170 + WrittenCount(d)

\* the word datagram d writes at index i
WordAt(d, i) ==
    LET j == 3 * (i - (P(d) % 10) * 170)
    IN <<d.data[j + 1] * 256 + d.data[j + 2], d.data[j + 3] * 256>>

\* C12: messages are applied in arrival order: the buffers start all zero, and
\* each pixel-data message overwrites exactly the indices its written range
\* covers and leaves every other index as the earlier messages left it, so every
\* index holds the value of the most recent message that covered it, or zero.
C12_MostRecentMessageWins ==
    /\ \A k \in Channels : \A i \in 0 .. PIXEL_COUNT - 1 : pixels_uints[k][i] = Zero
    /\ [][IF Handles("Dmx")
           THEN \A k \in Channels :
                   IF P(last') \div 10 = k
                   THEN \A i \in 0 .. PIXEL_COUNT - 1 :
                           pixels_uints'[k][i] =
                               IF Covers(last', k, i) THEN WordAt(last', i)
                               ELSE pixels_uints[k][i]
                   ELSE pixels_uints'[k] = pixels_uints[k]
           ELSE pixels_uints' = pixels_uints]_vars

C12_Witness ==
    /\ pc = "recv_from"
    /\ n_recv = 3
    /\ Handled("Dmx")
    /\ P(last) = 0
    /\ last.data = FiveBytes
    /\ pixels_uints[0][0] = <<10 * 256 + 20, 30 * 256>>
    /\ pixels_uints[0][1] = <<1 * 256 + 2, 3 * 256>>
    /\ pixels_uints[0][2] = <<8 * 256 + 9, 10 * 256>>

\* C13: processing a Sync or a vendor-command message changes no channel buffer
\* and not last_sequence, starts no strip write (no frame is handed to a strip)
\* and sends no datagram; the loop goes on to the next receive.
C13_SyncAndCommandUnused ==
    [][(Handles("Sync") \/ Handles("Command")) =>
          /\ pixels_uints' = pixels_uints
          /\ last_sequence' = last_sequence
          /\ strip_writes' = strip_writes
          /\ frame_out' = frame_out
          /\ sent' = sent
          /\ pc' = "recv_from"]_vars

C13_Witness ==
    /\ Handled("Sync")
    /\ n_recv = 3
    /\ pc = "recv_from"
    /\ log.msg = "received artnet: sync"
    /\ pixels_uints[0][0] = <<10 * 256 + 20, 30 * 256>>
    /\ pixels_uints[1][0] = <<10 * 256 + 20, 30 * 256>>
    /\ strip_writes = [k \in Channels |-> IF k \in {0, 1} THEN 1 ELSE 0]

\* C14: the completion of a reply's send_to, failed or not, sends nothing more,
\* changes no buffer and no strip state and returns the loop to recv_from;
\* every poll received, also after a failed send, causes one send attempt.
C14_SendFailureOnlyLogged ==
    [][/\ (pc = "send_to") =>
             (/\ sent' = sent
              /\ pixels_uints' = pixels_uints
              /\ last_sequence' = last_sequence
              /\ strip_writes' = strip_writes
              /\ frame_out' = frame_out
              /\ n_recv' = n_recv
              /\ pc' = "recv_from"
              /\ log'.msg \in {"sent poll reply", "error sending poll reply"})
       /\ Handles("Poll") =>
             (/\ Len(sent') = Len(sent) + 1
              /\ pc' = "send_to")]_vars

C14_Witness ==
    /\ Handled("Poll")
    /\ n_recv = 2
    /\ pc = "recv_from"
    /\ log.msg = "error sending poll reply"
    /\ Len(sent) = 2
    /\ sent[1].to = Controller
    /\ sent[2].to = OtherHost

\* C16: the sequence byte of a pixel-data message has no part in its effect: the
\* step that handles it never stops the loop in the sequence diagnostics (line
\* 110), and when the loop goes on the buffers and the strip writes are those
\* determined by the port address and the payload alone, the same for every
\* sequence byte and every last_sequence.
C16_SequenceBytesInformational ==
    [][Handles("Dmx") =>
          /\ panic_at' # 110
          /\ (pc' # "panicked") =>
                (/\ \A k \in Channels :
                      IF P(last') \div 10 = k
                      THEN \A i \in 0 .. PIXEL_COUNT - 1 :
                              pixels_uints'[k][i] =
                                  IF Covers(last', k, i) THEN WordAt(last', i)
                                  ELSE pixels_uints[k][i]
                      ELSE pixels_uints'[k] = pixels_uints[k]
                 /\ \A k \in Channels :
                      strip_writes'[k] =
                          strip_writes[k] + (IF P(last') = 10 * k THEN 1 ELSE 0))]_vars

\* C15: from the start of a strip write until its completion no datagram is
\* dequeued or applied and no buffer is modified, whatever arrives at the socket
\* meanwhile; the frame being transmitted stays the content of its buffer.
C15_NoOverlapOfMutationAndOutput ==
    /\ [](pc = "write_uints" => \E k \in branch : frame_out = pixels_uints[k])
    /\ [][pc = "write_uints" =>
             /\ pixels_uints' = pixels_uints
             /\ frame_out' = frame_out
             /\ strip_writes' = strip_writes
             /\ n_recv' = n_recv
             /\ last' = last
             /\ Len(rx_queue') >= Len(rx_queue)
             /\ pc' \in {"write_uints", "recv_from"}]_vars

C15_Witness ==
    /\ pc = "write_uints"
    /\ n_recv = 2
    /\ arrived_during_write = 2
    /\ Len(rx_queue) = 2
    /\ last # Filler
    /\ frame_out = pixels_uints[0]
    /\ frame_out[0] = <<200 * 256 + 100, 50 * 256>>

\* C17: no datagram delivered to the node's socket is dropped.
C17_NoDatagramDropped == dropped = 0

\* the relay a command addresses (all but its on_digit and the closing '.')
RelayOf(c) == SubSeq(c, 1, Len(c) - 2)

OnDigitOf(c) == c[Len(c) - 1]

\* C18: two consecutive commands sent for the same relay never carry the same
\* on_digit.
C18_EdgeTriggered ==
    \A i, j \in 1 .. Len(bus) :
        (/\ i < j
         /\ RelayOf(bus[i]) = RelayOf(bus[j])
         /\ \A k \in i + 1 .. j - 1 : RelayOf(bus[k]) # RelayOf(bus[i]))
        => OnDigitOf(bus[i]) # OnDigitOf(bus[j])

\* c is '!' + the two decimal digits of the board address + the relay digit in
\* 1..8 + '1' for on, '0' for off + '.'
WellFormed(c, relay_address, on) ==
    /\ Len(c) = 6
    /\ c[1] = "!"
    /\ relay_address.board_address < 100
    /\ c[2] = DigitChars[(relay_address.board_address \div 10) + 1]
    /\ c[3] = DigitChars[(relay_address.board_address % 10) + 1]
    /\ relay_address.relay_number \in 1 .. 8
    /\ c[4] = DigitChars[relay_address.relay_number + 1]
    /\ c[5] = IF on THEN "1" ELSE "0"
    /\ c[6] = "."

PooferNames == {"poofer_wide", "poofer_narrow"}

\* C19: every command output enqueues is the well-formed command of a poofer
\* that needed sending, with the on_digit of that poofer's state; and the
\* command of every relay address of the elder mapping table, on or off, is
\* well-formed.
C19_CommandFormat ==
    /\ [](\A e \in ElderIndices : \A w \in PooferNames : \A on \in BOOLEAN :
             WellFormed(Command(create_elders[e][w].relay_address, on),
                        create_elders[e][w].relay_address, on))
    /\ [][\A i \in Len(bus) + 1 .. Len(bus') :
             \E e \in ElderIndices : \E w \in PooferNames :
                /\ elders[e][w].needs_to_send_command
                /\ WellFormed(bus'[i], elders[e][w].relay_address, elders[e][w].on)]_vars

C19_Witness ==
    /\ Len(bus) = 4
    /\ bus[1] = <<"!", "0", "2", "6", "1", ".">>
    /\ bus[2] = <<"!", "0", "2", "5", "1", ".">>
    /\ bus[3] = <<"!", "0", "2", "6", "0", ".">>
    /\ bus[4] = <<"!", "0", "2", "5", "0", ".">>
    /\ ~elders[1].poofer_wide.on

\* the elders a Tick leaves, given the elders its render left
AfterOutput(eld) ==
    IF poofer_port /\ (poofer_output_enabled \/ poofer_output_enabled_once)
    THEN output_elders(eld) ELSE eld

\* C20: a render call's resulting elders are determined by the effect,
\* program_time, effect_time and the elders it is given: they are what a newly
\* made effect object yields for the same arguments, whatever render calls the
\* object has seen before.
C20_EffectsArePure ==
    [][\A n \in Instants :
          (Tick(n) /\ current_trigger_effect # "None") =>
              \A fresh \in Renderings(current_trigger_effect, elders, NewEffectObject,
                                      NewEffectObject, n, n - trigger_effect_start) :
                  elders' = AfterOutput(fresh.elders)]_vars

\* C21: a pixel-data message with a payload of L bytes for in-range channel c at
\* offset o makes buffer_c[o + i], for i in 0 .. min(L div 3, PIXEL_COUNT - o) - 1,
\* the word (byte[3i] << 24) | (byte[3i+1] << 16) | (byte[3i+2] << 8); the 1 or 2
\* bytes behind the last whole triple are ignored; every other index of
\* buffer_c and the other three buffers are unchanged; the low 8 bits of every
\* buffer word are always zero.
C21_ExactEffectOfPixelData ==
    /\ [](\A k \in Channels : \A i \in 0 .. PIXEL_COUNT - 1 :
             pixels_uints[k][i][2] % 256 = 0)
    /\ [][(Handles("Dmx") /\ P(last') \div 10 \in Channels) =>
             LET c == P(last') \div 10
                 o == (P(last') % 10) * pixels_per_universe
                 L == Len(last'.data)
                 n == Min(L \div 3, PIXEL_COUNT - o)
                 byte == [j \in 0 .. L - 1 |-> last'.data[j + 1]]
             IN /\ \A k \in Channels \ {c} : pixels_uints'[k] = pixels_uints[k]
                /\ \A i \in 0 .. PIXEL_COUNT - 1 :
                      pixels_uints'[c][i] =
                          IF o <= i /\ i < o + n
                          THEN <<byte[3 * (i - o)] * 256 + byte[3 * (i - o) + 1],
                                 byte[3 * (i - o) + 2] * 256>>
                          ELSE pixels_uints[c][i]]_vars

C21_Witness ==
    /\ Handled("Dmx")
    /\ pc = "recv_from"
    /\ n_recv = 3
    /\ P(last) = 10
    /\ last.data = FiveBytes
    /\ pixels_uints[1][0] = <<10 * 256 + 20, 30 * 256>>
    /\ pixels_uints[1][1] = Zero
    /\ pixels_uints[0][0] = <<200 * 256 + 100, 50 * 256>>
    /\ pixels_uints[0][1] = <<1 * 256 + 2, 3 * 256>>
    /\ pixels_uints[0][169] # Zero

\* C22: poof(v) ends with on = v; needs_to_send_command becomes true exactly
\* when on changes and is never cleared; poof(v) on a poofer whose on is v
\* changes nothing, so a second poof(v) changes nothing.
C22_PoofMarksChanges ==
    \A e \in ElderIndices : \A w \in PooferNames :
    \A on \in BOOLEAN : \A needs \in BOOLEAN : \A v \in BOOLEAN :
        LET p == [elders[e][w] EXCEPT !.on = on, !.needs_to_send_command = needs]
            q == poof(p, v)
        IN /\ q.on = v
           /\ q.needs_to_send_command = (needs \/ on # v)
           /\ q.relay_address = p.relay_address
           /\ on = v => q = p
           /\ poof(q, v) = q

C22_Witness ==
    /\ elders[0].poofer_wide.on
    /\ elders[0].poofer_wide.needs_to_send_command
    /\ ~elders[1].poofer_wide.on
    /\ elders[1].poofer_wide.needs_to_send_command
    /\ Len(bus) = 2

\* the poofers in the order output visits them
PoofersInOrder ==
    [j \in 1 .. 2 * Len(get_elder_defs) |->
        [e |-> (j - 1) \div 2,
         w |-> IF j % 2 = 1 THEN "poofer_wide" ELSE "poofer_narrow"]]

\* this step is a Tick that calls PooferBusPort::output
TickWithOutput ==
    /\ \E n \in Instants : Tick(n)
    /\ poofer_port
    /\ poofer_output_enabled \/ poofer_output_enabled_once

\* C23: output enqueues one command for each poofer whose
\* needs_to_send_command is true, with that poofer's on value, and none for any
\* other, in elder index order with wide before narrow; it clears every
\* needs_to_send_command and changes no on field; an output that follows with
\* no poof in between enqueues nothing.
C23_OutputServesMarkedPoofers ==
    [][TickWithOutput =>
          LET Marked(x) == elders[x.e][x.w].needs_to_send_command
              served == SelectSeq(PoofersInOrder, Marked)
          IN /\ Len(bus') = Len(bus) + Len(served)
             /\ SubSeq(bus', 1, Len(bus)) = bus
             /\ \A j \in 1 .. Len(served) :
                   WellFormed(bus'[Len(bus) + j],
                              elders[served[j].e][served[j].w].relay_address,
                              elders[served[j].e][served[j].w].on)
             /\ \A e \in ElderIndices : \A w \in PooferNames :
                   /\ ~elders'[e][w].needs_to_send_command
                   /\ elders'[e][w].on = elders[e][w].on
             /\ output_commands(elders') = <<>>]_vars

C23_Witness ==
    /\ poofer_port
    /\ poofer_output_enabled
    /\ Len(bus) = 4
    /\ bus[1] = <<"!", "0", "2", "4", "1", ".">>
    /\ bus[2] = <<"!", "0", "2", "3", "1", ".">>
    /\ bus[3] = <<"!", "0", "2", "6", "1", ".">>
    /\ bus[4] = <<"!", "0", "2", "5", "1", ".">>
    /\ \A e \in ElderIndices : \A w \in PooferNames :
          ~elders[e][w].needs_to_send_command
    /\ elders[1].poofer_narrow.on

\* the positions of the commands sent for the relay of poofer p
SentFor(p) ==
    {i \in 1 .. Len(bus) : RelayOf(bus[i]) = RelayOf(Command(p.relay_address, p.on))}

Last(S) == CHOOSE i \in S : \A j \in S : j <= i

\* the last command sent for p's relay carries p.on, or none was sent and p is off
Agrees(p) ==
    IF SentFor(p) = {} THEN ~p.on
    ELSE bus[Last(SentFor(p))] = Command(p.relay_address, p.on)

\* C24: in every state, a poofer whose needs_to_send_command is false has its
\* current on value in the last command enqueued for its relay, or no command
\* was enqueued for the relay and the poofer is off; after every Tick that calls
\* output this holds of every poofer.
C24_LastCommandAgrees ==
    /\ [](\A e \in ElderIndices : \A w \in PooferNames :
             ~elders[e][w].needs_to_send_command => Agrees(elders[e][w]))
    /\ [][TickWithOutput =>
             \A e \in ElderIndices : \A w \in PooferNames : Agrees(elders[e][w])']_vars

C24_Witness ==
    /\ current_trigger_effect = "Poof1"
    /\ bus = << <<"!", "0", "2", "4", "1", ".">>, <<"!", "0", "2", "3", "1", ".">>,
                <<"!", "0", "2", "4", "0", ".">>, <<"!", "0", "2", "3", "0", ".">> >>
    /\ ~elders[0].poofer_wide.on
    /\ ~elders[0].poofer_wide.needs_to_send_command
    /\ ~elders[0].poofer_narrow.needs_to_send_command

\* the last command sent for p's relay is an off command, or none was sent
LastIsOff(p) ==
    \/ SentFor(p) = {}
    \/ OnDigitOf(bus[Last(SentFor(p))]) = "0"

\* C25: when poofer output was disabled with the serial port open (commands
\* were sent over it before), no on command is enqueued while output stays
\* disabled, and after the Tick that uses up poofer_output_enabled_once the last
\* command enqueued for every relay is an off command.
C25_DisablingLeavesNoRelayOn ==
    [][(poofer_port /\ ~poofer_output_enabled /\ bus # <<>>) =>
          /\ \A i \in Len(bus) + 1 .. Len(bus') : OnDigitOf(bus'[i]) = "0"
          /\ (poofer_output_enabled_once /\ ~poofer_output_enabled_once') =>
                \A e \in ElderIndices : \A w \in PooferNames :
                    LastIsOff(elders[e][w])']_vars

IsTick == \E n \in Instants : Tick(n)

AllPoofers == ElderIndices \X PooferNames

\* this step sent nothing and cleared no needs_to_send_command
NoOutput ==
    /\ bus' = bus
    /\ \A x \in AllPoofers :
          elders[x[1]][x[2]].needs_to_send_command =>
              elders'[x[1]][x[2]].needs_to_send_command

\* this step left no needs_to_send_command set and sent the commands of the
\* poofers that had it set
OutputCalled ==
    /\ \A x \in AllPoofers : ~elders'[x[1]][x[2]].needs_to_send_command
    /\ \A x \in AllPoofers :
          elders[x[1]][x[2]].needs_to_send_command =>
              \E i \in Len(bus) + 1 .. Len(bus') :
                  bus'[i] = Command(elders'[x[1]][x[2]].relay_address,
                                    elders'[x[1]][x[2]].on)

\* C26: a Tick with poofer_output_enabled_once set and a serial port open calls
\* output and clears the flag; a Tick with output disabled and the flag clear
\* calls no output; nothing but disabling the output sets the flag; while no
\* port is open the flag stays set and nothing is sent.
C26_OnceGrantsOneOutput ==
    [][/\ (IsTick /\ poofer_port /\ poofer_output_enabled_once) =>
             (OutputCalled /\ ~poofer_output_enabled_once')
       /\ (IsTick /\ ~poofer_output_enabled /\ ~poofer_output_enabled_once) =>
             (NoOutput /\ ~poofer_output_enabled_once')
       /\ (~poofer_output_enabled_once /\ poofer_output_enabled_once') =>
             (poofer_output_enabled /\ ~poofer_output_enabled')
       /\ (~poofer_port /\ poofer_output_enabled_once) =>
             (poofer_output_enabled_once' /\ NoOutput)]_vars

C26_Witness ==
    /\ poofer_port
    /\ ~poofer_output_enabled
    /\ ~poofer_output_enabled_once
    /\ current_trigger_effect = "None"
    /\ bus = << <<"!", "0", "2", "4", "1", ".">>, <<"!", "0", "2", "3", "1", ".">>,
                <<"!", "0", "2", "4", "0", ".">>, <<"!", "0", "2", "3", "0", ".">> >>
    /\ \A x \in AllPoofers : ~elders[x[1]][x[2]].needs_to_send_command

\* C27: artnet_output_frame_count stays in 0 .. ARTNET_FRAME_OUTPUT_PERIOD - 1,
\* that is 0 or 1; the program starts with Art-Net output enabled and the count
\* at 0; a Tick with output enabled sends the frame exactly if the count is 0
\* and moves the count to the other value, so every second such Tick sends,
\* the first one included; a Tick with output disabled sends nothing and keeps
\* the count, and so does every other message.
C27_EverySecondTickSends ==
    /\ artnet_output_enabled = TRUE
    /\ artnet_output_frame_count = 0
    /\ [](/\ artnet_output_frame_count \in 0 .. ARTNET_FRAME_OUTPUT_PERIOD - 1
          /\ artnet_output_frame_count \in {0, 1})
    /\ [][IF IsTick
           THEN IF artnet_output_enabled
                THEN /\ (artnet_out' # <<>>) <=> (artnet_output_frame_count = 0)
                     /\ artnet_output_frame_count' = 1 - artnet_output_frame_count
                ELSE /\ artnet_out' = <<>>
                     /\ artnet_output_frame_count' = artnet_output_frame_count
           ELSE artnet_output_frame_count' = artnet_output_frame_count]_vars

C27_Witness ==
    /\ artnet_output_enabled
    /\ artnet_output_frame_count = 0
    /\ artnet_out = <<>>
    /\ now = 25
    /\ current_ambient_effect = "Solid"
    /\ crane_light[0].b = 720000

\* C28: in one Tick the colours are cleared, then the ambient effect renders,
\* then the trigger effect, then the Art-Net frame is sent, then the poofer
\* commands: a channel the ambient effect does not write (RedToBlue writes no
\* green) is 0 and not what an earlier Tick left; the frame sent holds the
\* colours this Tick rendered, as gamma bytes g, r, b; the poofers are as the
\* trigger effect's render at this Tick leaves them, and the commands sent
\* carry that state.
C28_TickOrder ==
    [][\A n \in Instants :
          Tick(n) =>
            /\ current_ambient_effect = "RedToBlue" =>
                  \A i \in ElderIndices :
                      /\ crane_light'[i].g = 0
                      /\ crane_light'[i].r + crane_light'[i].b = 720000
            /\ artnet_out' # <<>> =>
                  /\ Len(artnet_out') = Len(get_elder_defs)
                  /\ \A j \in 1 .. Len(get_elder_defs) :
                        /\ artnet_out'[j].to = get_elder_defs[j].artnet_target_ip_last_octet
                        /\ artnet_out'[j].pixel =
                              <<GammaByte(crane_light'[j - 1].g),
                                GammaByte(crane_light'[j - 1].r),
                                GammaByte(crane_light'[j - 1].b)>>
                        /\ current_ambient_effect = "RedToBlue" =>
                              artnet_out'[j].pixel[1] = 0
            /\ current_trigger_effect = "Poof1" =>
                  \A w \in PooferNames :
                      elders'[0][w].on <=> (n - trigger_effect_start < 30)
            /\ (poofer_port /\ (poofer_output_enabled \/ poofer_output_enabled_once)) =>
                  \A x \in AllPoofers : Agrees(elders[x[1]][x[2]])']_vars

C28_Witness ==
    /\ current_ambient_effect = "RedToBlue"
    /\ current_trigger_effect = "Poof1"
    /\ now = 50
    /\ artnet_output_frame_count = 1
    /\ Len(artnet_out) = 9
    /\ artnet_out[1].pixel = <<0, 236, 0>>
    /\ artnet_out[5].pixel = <<0, 43, 30>>
    /\ bus = << <<"!", "0", "2", "4", "1", ".">>, <<"!", "0", "2", "3", "1", ".">>,
                <<"!", "0", "2", "4", "0", ".">>, <<"!", "0", "2", "3", "0", ".">> >>
    /\ poofer_output_enabled

\* what SelectTriggerEffect(i) does in every step that handles it: the selected
\* effect is deselected, any other effect is selected; the ambient effect stays
SelectToggles ==
    \A i \in TriggerEffects :
        SelectTriggerEffect(i) =>
            /\ current_trigger_effect' =
                  IF current_trigger_effect = i THEN "None" ELSE i
            /\ current_ambient_effect' = current_ambient_effect

\* C29 as stated: SelectTriggerEffect(i) toggles, at most one trigger effect is
\* active, the ambient effect is not changed, and selecting the same trigger
\* effect twice in a row always ends with no trigger effect.
C29_SelectingTwiceEndsWithNone ==
    /\ [](/\ current_trigger_effect \in TriggerEffects \cup {"None"}
          /\ \A i \in TriggerEffects :
                Toggled(Toggled(current_trigger_effect, i), i) = "None")
    /\ [][SelectToggles]_vars

\* C29 amended: SelectTriggerEffect(i) toggles, at most one trigger effect is
\* active, the ambient effect is not changed, and selecting the same trigger
\* effect twice in a row ends with no trigger effect unless that effect was the
\* selected one before, in which case it ends selected again.
C29_SelectingTwiceFromOther ==
    /\ [](/\ current_trigger_effect \in TriggerEffects \cup {"None"}
          /\ \A i \in TriggerEffects :
                Toggled(Toggled(current_trigger_effect, i), i) =
                    IF current_trigger_effect = i THEN i ELSE "None")
    /\ [][SelectToggles]_vars

C29_Witness ==
    /\ current_trigger_effect = "None"
    /\ trigger_effect_start = 50
    /\ now = 50
    /\ nonagram.time > 0

IsSelect ==
    \/ \E effect \in ShowAmbientEffects : SelectAmbientEffect(effect)
    \/ \E effect \in ShowEffects : SelectTriggerEffect(effect)

AllOff == \A x \in AllPoofers : ~elders[x[1]][x[2]].on

\* C30: right after SelectAmbientEffect or SelectTriggerEffect every poofer is
\* off, and every poofer that was on is marked for sending; with no trigger
\* effect selected and all poofers off, they stay off through every Tick and
\* every other message, until ElderDown or a trigger selection.
C30_SelectionTurnsPoofersOff ==
    [][/\ IsSelect =>
             \A x \in AllPoofers :
                 /\ ~elders'[x[1]][x[2]].on
                 /\ elders[x[1]][x[2]].on =>
                       elders'[x[1]][x[2]].needs_to_send_command
       /\ (/\ current_trigger_effect = "None"
           /\ AllOff
           /\ ~ElderDown(0)
           /\ ~(\E effect \in ShowEffects : SelectTriggerEffect(effect))) =>
             AllOff']_vars

C30_Witness ==
    /\ current_trigger_effect = "None"
    /\ trigger_effect_start = 25
    /\ now = 50
    /\ current_ambient_effect = "RedToBlue"
    /\ crane_light[0].r = 702000
    /\ AllOff
    /\ elders[0].poofer_narrow.needs_to_send_command
    /\ elders[0].poofer_wide.needs_to_send_command
    /\ bus = <<>>

\* C36: of the pixel-data messages only those with port address 31 take part
\* in the skip diagnostics: a skip is printed exactly when the sequence byte is
\* not (last_sequence + 1) mod 256; sequence - last_sequence and that
\* difference plus 1 stay in 0 .. 255, so the step does not stop at line 110;
\* last_sequence becomes the sequence byte; a message with any other port
\* address leaves last_sequence and the printed line alone.
C36_SkipDetection ==
    [][Handles("Dmx") =>
          IF P(last') = 31
          THEN /\ (last'.sequence # (last_sequence + 1) % 256) =>
                     /\ last'.sequence - last_sequence \in 0 .. 255
                     /\ last'.sequence - last_sequence + 1 \in 0 .. 255
                     /\ log' = Line("seq skipped", last'.sequence,
                                    last'.sequence - last_sequence + 1)
               /\ (last'.sequence = (last_sequence + 1) % 256) => log' = log
               /\ panic_at' # 110
               /\ last_sequence' = last'.sequence
          ELSE /\ last_sequence' = last_sequence
               /\ log' = log]_vars

-----------------------------------------------------------------------------
(* The LED node from power-up: main and the bootsel_task it spawns.  The    *)
(* statements of main behind its loop (lines 176-261) cannot be reached: a  *)
(* loop without break does not end, so they have no action here.            *)

\* passes of main's loop that are counted
MaxBootLoops == 3

\* the colours the loop gives pixels before the write of pc0 .. pc3
StartupColours == << <<128, 0, 0>>, <<128, 128, 0>>, <<0, 128, 0>>, <<0, 0, 128>> >>

\* the state at the head of main's loop: RGB8::default() pixels, nothing
\* written, receive_artnet not entered
InitMain ==
    /\ pc = "main"
    /\ overflow_checks = TRUE
    /\ pixels_uints = [k \in Channels |-> [i \in 0 .. PIXEL_COUNT - 1 |-> ToWord(0)]]
    /\ last_sequence = 0
    /\ port_address = 0
    /\ start_of_universe_in_pixel_array = 0
    /\ branch = {}
    /\ strip_writes = [k \in Channels |-> 0]
    /\ frame_out = [i \in 0 .. PIXEL_COUNT - 1 |-> ToWord(0)]
    /\ sent = <<>>
    /\ log = Line("", 0, 0)
    /\ last = NoDatagram
    /\ repeated = FALSE
    /\ n_recv = 0
    /\ panic_at = 0
    /\ rx_queue = <<>>
    /\ arrived = 0
    /\ dropped = 0
    /\ arrived_during_write = 0
    /\ elders = create_elders
    /\ current_trigger_effect = "None"
    /\ trigger_effect_start = 0
    /\ now = 0
    /\ nonagram = NewEffectObject
    /\ random_poof = NewEffectObject
    /\ poofer_port = FALSE
    /\ poofer_output_enabled = FALSE
    /\ poofer_output_enabled_once = FALSE
    /\ bus = <<>>
    /\ crane_light = new_crane_lights
    /\ current_ambient_effect = "Pseudorandom"
    /\ artnet_output_enabled = TRUE
    /\ artnet_output_frame_count = 0
    /\ artnet_out = <<>>
    /\ main_pc = [op |-> "for", strip |-> 0]
    /\ pixels = <<0, 0, 0>>
    /\ strips = [k \in Channels |-> <<0, 0, 0>>]
    /\ boot_loops = 0
    /\ bootsel_pc = "check"
    /\ bootsel_pressed = FALSE
    /\ usb_boot = FALSE
    /\ writer_pc = "none"
    /\ command = <<>>
    /\ written = <<>>

\* for i in &mut pixels { .. } and the call of pcN.write(&pixels)
MainFor ==
    /\ ~usb_boot
    /\ main_pc.op = "for"
    /\ pixels' = StartupColours[main_pc.strip + 1]
    /\ main_pc' = [main_pc EXCEPT !.op = "write"]
    /\ UNCHANGED <<strips, boot_loops, bootsel_pc, bootsel_pressed, usb_boot,
                   node_vars, server_vars, writer_vars>>

\* pcN.write(&pixels).await completes; behind pc3 the loop starts over
MainWriteDone ==
    /\ ~usb_boot
    /\ main_pc.op = "write"
    /\ strips' = [strips EXCEPT ![main_pc.strip] = pixels]
    /\ main_pc' = [op |-> "for", strip |-> (main_pc.strip + 1) % 4]
    /\ boot_loops' = IF main_pc.strip = 3 THEN Min(boot_loops + 1, MaxBootLoops)
                     ELSE boot_loops
    /\ UNCHANGED <<pixels, bootsel_pc, bootsel_pressed, usb_boot, node_vars, server_vars, writer_vars>>

\* somebody presses or releases the BOOTSEL button
BootselButton ==
    /\ ~usb_boot
    /\ bootsel_pressed' = ~bootsel_pressed
    /\ UNCHANGED <<main_pc, pixels, strips, boot_loops, bootsel_pc, usb_boot,
                   node_vars, server_vars, writer_vars>>

\* bootsel_task: checkbootsel(&mut bootsel), then Timer::after_secs(1)
CheckBootsel ==
    /\ ~usb_boot
    /\ bootsel_pc = "check"
    /\ IF bootsel_pressed
       THEN usb_boot' = TRUE /\ UNCHANGED bootsel_pc
       ELSE bootsel_pc' = "timer" /\ UNCHANGED usb_boot
    /\ UNCHANGED <<main_pc, pixels, strips, boot_loops, bootsel_pressed,
                   node_vars, server_vars, writer_vars>>

\* Timer::after_secs(1).await completes
BootselTimer ==
    /\ ~usb_boot
    /\ bootsel_pc = "timer"
    /\ bootsel_pc' = "check"
    /\ UNCHANGED <<main_pc, pixels, strips, boot_loops, bootsel_pressed, usb_boot,
                   node_vars, server_vars, writer_vars>>

NextMain ==
    \/ MainFor
    \/ MainWriteDone
    \/ BootselButton
    \/ CheckBootsel
    \/ BootselTimer

\* the executor runs main whenever it can run, and a strip write completes
SpecMain ==
    /\ InitMain
    /\ [][NextMain]_vars
    /\ WF_vars(MainFor)
    /\ WF_vars(MainWriteDone)

\* C35: after power-up main finishes its start-up colour writes, brings up the
\* network and enters receive_artnet: the receive loop's state of awaiting a
\* datagram is eventually reached, unless the BOOTSEL button has sent the chip
\* to its USB boot loader.
C35_ReceiveLoopReached ==
    <>(main_pc.op = "receive_artnet" \/ pc = "recv_from" \/ usb_boot)

-----------------------------------------------------------------------------
\* The serial writer thread (archive/server_rust/src/poofer_bus_port.rs).
\*
\* PooferBusPort::new creates an mpsc channel and spawns a thread that opens
\* the port and then loops: recv a command, port.write it, report the result.
\* output sends each command into the channel, so the channel holds the
\* commands of bus the thread has not received yet, oldest first.  The port
\* is taken to open; the operator selects it once.

\* the number of commands the thread has received
received == Len(written) + (IF writer_pc = "write" THEN 1 ELSE 0)

\* port_channel_receiver: the commands sent and not yet received
port_channel == SubSeq(bus, received + 1, Len(bus))

\* a thread that gives up at the first failed write
WriterWriteStopsOnError(ok) ==
    /\ writer_pc = "write"
    /\ written' = Append(written, [command |-> command, ok |-> ok])
    /\ writer_pc' = IF ok THEN "recv" ELSE "none"
    /\ UNCHANGED command
    /\ UNCHANGED <<node_vars, server_vars, main_vars>>

\* a thread that takes the newest command of the channel
WriterRecvNewest ==
    /\ writer_pc = "recv"
    /\ port_channel # <<>>
    /\ command' = port_channel[Len(port_channel)]
    /\ writer_pc' = "write"
    /\ UNCHANGED written
    /\ UNCHANGED <<node_vars, server_vars, main_vars>>

\* let command = port_channel_receiver.recv().unwrap(): blocks on an empty
\* channel, returns the oldest command otherwise
WriterRecv ==
    /\ writer_pc = "recv"
    /\ port_channel # <<>>
    /\ command' = Head(port_channel)
    /\ writer_pc' = "write"
    /\ UNCHANGED written
    /\ UNCHANGED <<node_vars, server_vars, main_vars>>

\* match port.write(command.as_bytes()): Ok prints the command, Err prints the
\* error; either way the loop goes round
WriterWrite(ok) ==
    /\ writer_pc = "write"
    /\ written' = Append(written, [command |-> command, ok |-> ok])
    /\ writer_pc' = "recv"
    /\ UNCHANGED command
    /\ UNCHANGED <<node_vars, server_vars, main_vars>>

NextWriter ==
    \/ \E n \in Instants : Tick(n)
    \/ PooferOutputCheckboxPressed
    \/ (~poofer_port /\ SelectSerialPort)
    \/ ElderDown(0)
    \/ ElderUp(0)
    \/ WriterRecv
    \/ \E ok \in BOOLEAN : WriterWrite(ok)

SpecWriter == InitServer /\ [][NextWriter]_vars

\* C31: the thread writes the commands in the order output enqueued them, each
\* at most once (the writes made are, command by command, the first commands
\* of the channel's history), and a failed write leaves the thread in its
\* loop, so that a command enqueued after the failed one is received next.
C31_WriterKeepsOrder ==
    /\ [](/\ Len(written) <= Len(bus)
          /\ \A i \in 1 .. Len(written) : written[i].command = bus[i]
          /\ (writer_pc = "write") => command = bus[Len(written) + 1])
    /\ [][(\E ok \in BOOLEAN : WriterWrite(ok)) =>
              /\ writer_pc' = "recv"
              /\ (Len(bus) > Len(written')) =>
                     /\ port_channel' # <<>>
                     /\ Head(port_channel') = bus[Len(written') + 1]]_vars

C31_Witness ==
    /\ Len(written) >= 2
    /\ written[1].ok = FALSE
    /\ written[2].ok = TRUE
    /\ written[1].command # written[2].command

-----------------------------------------------------------------------------
\* The timed poof effects (archive/server_rust/src/effects.rs).

TimedPoofEffects ==
    {"AllPoof", "AllPoofWide", "AllPoofNarrow"} \cup DOMAIN PoofStation

\* the poofers an effect's render calls poof on
Controlled(effect) ==
    CASE effect = "AllPoof" -> ElderIndices \X {"poofer_wide", "poofer_narrow"}
      [] effect = "AllPoofWide" -> ElderIndices \X {"poofer_wide"}
      [] effect = "AllPoofNarrow" -> ElderIndices \X {"poofer_narrow"}
      [] effect \in DOMAIN PoofStation ->
           {PoofStation[effect]} \X {"poofer_wide", "poofer_narrow"}
      [] OTHER -> {}

\* the timed effects the operator selects in one run
TimedPoofsShown == {"AllPoof", "AllPoofWide", "AllPoofNarrow", "Poof9"}

\* the operator selects and deselects timed effects, no serial port is selected
NextTimed ==
    \/ \E n \in Instants : Tick(n)
    \/ \E effect \in TimedPoofsShown : SelectTriggerEffect(effect)

SpecTimed == InitServer /\ [][NextTimed]_vars

\* C34: a Tick that renders a timed poof effect 0.3 s or more after it was
\* selected leaves every poofer the effect controls off.
C34_TimedPoofsEnd ==
    [][((\E n \in Instants : Tick(n))
          /\ current_trigger_effect \in TimedPoofEffects
          /\ now' - trigger_effect_start >= 30) =>
             \A p \in Controlled(current_trigger_effect) :
                 ~elders'[p[1]][p[2]].on]_vars

-----------------------------------------------------------------------------
\* Nonagram (archive/server_rust/src/effects.rs).

\* the positive multiples i * period that lie behind elapsed time a and not
\* behind elapsed time b
MultiplesCrossed(a, b) ==
    {i \in 1 .. poof_count - 1 : a < i * period /\ b >= i * period}

\* the elders whose narrow poofer is on
NarrowOn(eld) == {i \in ElderIndices : eld[i].poofer_narrow.on}

\* C33: a Tick that renders Nonagram leaves the narrow poofer on at the
\* effect's index and nowhere else, and the index has advanced by 4 modulo 9
\* once for each positive multiple of 0.5 s the effect time has crossed since
\* the Tick or the selection before.
C33_NonagramSteps ==
    [][((\E n \in Instants : Tick(n)) /\ current_trigger_effect = "Nonagram") =>
          /\ NarrowOn(elders') = {nonagram'.index} \cap ElderIndices
          /\ Cardinality(NarrowOn(elders')) <= 1
          /\ nonagram'.index =
                Advance(nonagram.index,
                        Cardinality(MultiplesCrossed(now - trigger_effect_start,
                                                     now' - trigger_effect_start)))]_vars

-----------------------------------------------------------------------------
\* From the server's Art-Net output to the node's strip 0
\* (server_rust/src/artnet_output_socket.rs, led_node/src/main.rs and
\* led_node/src/artnet.rs).  The node is the one at the first elder's
\* artnet_target_addr; IP_ADDRESS_* are set per device.

\* the elder whose node this is
NodeElder == 0

\* the ArtDmx datagram of one entry of artnet_out: [pixel; 170] as 510 bytes,
\* port address 0, the sequence byte of Default::default()
ServerDmx(f) ==
    Dmx(0, 0, f.port_address, 0, [i \in 1 .. 3 * 170 |-> f.pixel[((i - 1) % 3) + 1]])

\* the datagrams in flight to the node
NodeFrames ==
    {j \in 1 .. Len(artnet_out) :
        artnet_out[j].to = get_elder_defs[NodeElder + 1].artnet_target_ip_last_octet}

Without(s, j) == SubSeq(s, 1, j - 1) \o SubSeq(s, j + 1, Len(s))

\* datagram j reaches the node.  Once main has called receive_artnet the
\* socket is bound and recv_from returns the datagram to the loop; before
\* that no network stack runs and the datagram is lost.
Deliver(j) ==
    /\ j \in NodeFrames
    /\ artnet_out' = Without(artnet_out, j)
    /\ UNCHANGED <<elders, current_trigger_effect, trigger_effect_start, now, nonagram,
                   random_poof, poofer_port, poofer_output_enabled,
                   poofer_output_enabled_once, bus, crane_light,
                   current_ambient_effect, artnet_output_enabled,
                   artnet_output_frame_count>>
    /\ UNCHANGED <<overflow_checks, main_vars, writer_vars>>
    /\ IF main_pc.op = "receive_artnet"
       THEN LET d == ServerDmx(artnet_out[j])
            IN /\ pc = "recv_from"
               /\ n_recv < MaxDatagrams
               /\ n_recv' = n_recv + 1
               /\ last' = d
               /\ repeated' = (n_recv > 0 /\ d = last)
               /\ recv_from(d) = "Ok"
               /\ from_slice(d) = "Dmx"
               /\ DmxBody(d)
               /\ Direct
       ELSE UNCHANGED <<pc, pixels_uints, last_sequence, port_address,
                        start_of_universe_in_pixel_array, branch, strip_writes,
                        frame_out, sent, log, last, repeated, n_recv, panic_at,
                        rx_queue, arrived, dropped, arrived_during_write>>

\* the node from power-up, the server sending its frames
NextEndToEnd ==
    \/ MainFor
    \/ MainWriteDone
    \/ \E n \in Instants : Tick(n)
    \/ \E effect \in AmbientEffects : SelectAmbientEffect(effect)
    \/ \E j \in 1 .. Len(get_elder_defs) : Deliver(j)

SpecEndToEnd == InitMain /\ [][NextEndToEnd]_vars

\* the buffer whose PIXEL_COUNT words all hold the pixel of entry f
Filled(f) ==
    [i \in 0 .. PIXEL_COUNT - 1 |-> PixelUint(f.pixel[1], f.pixel[2], f.pixel[3])]

\* C32: a datagram of the server that reaches its node makes the node store
\* the elder's colour in all PIXEL_COUNT words of channel 0 and write strip 0
\* once; the buffers of channels 1 to 3 and the strips 1 to 3 stay as they are.
C32_FrameReachesStrip ==
    [][\A j \in NodeFrames :
          Deliver(j) =>
             /\ artnet_out[j].port_address = 0
             /\ pixels_uints'[0] = Filled(artnet_out[j])
             /\ strip_writes'[0] = strip_writes[0] + 1
             /\ frame_out' = Filled(artnet_out[j])
             /\ \A k \in 1 .. 3 :
                   /\ pixels_uints'[k] = pixels_uints[k]
                   /\ strip_writes'[k] = strip_writes[k]]_vars

====
